---- MODULE Spec2Model ----
(***************************************************************************)
(* A model of electric_waltz: power sources (plain dispatchable sources    *)
(* and thermal power plants), energy storage, the cross-border terminal,   *)
(* the merit-order dispatchers and the per-step balancing of a Scenario.   *)
(*                                                                         *)
(* Power, energy and the dimensionless factors are Python floats in the    *)
(* program.  The model computes them in exact rational arithmetic: a       *)
(* number is a pair <<n, d>> in lowest terms with d > 0.  Where rounding   *)
(* decides an assertion that has no tolerance (EnergyStorage), a second    *)
(* translation rounds the result of every operation as binary floating     *)
(* point does, to a mantissa of MantissaBits bits.                         *)
(***************************************************************************)
EXTENDS Integers, Sequences, FiniteSets, TLC

VARIABLES
    scenario,   \* the Scenario's configuration (Scenario.__init__)
    int_util,   \* utilisation of each intermittent source
    flex,       \* state of each flexible source: utilisation, thermal state, counter
    stor,       \* state of each storage unit: current_energy, current_output
    net_import, \* CrossBorderTerminal._net_import
    stats,      \* the ScenarioRun being filled by the run in progress
    pc,         \* position of Scenario.run: "idle", "loop", "done", or "raised"
    i,          \* loop index of Scenario.run
    runs,       \* the ScenarioRuns returned so far, each with the resource state left behind
    calls,      \* calls made on dispatchers, units and terminal by the last operation
    hist,       \* calls made directly on a unit, oldest first
    err         \* "none", or the source line of the assertion that failed

vars == <<scenario, int_util, flex, stor, net_import, stats, pc, i, runs, calls, hist, err>>

(***************************************************************************)
(* Bounds of the model.                                                    *)
(***************************************************************************)
MaxCalls == 4   \* direct calls made on a unit under test
MaxCount == 3   \* largest startup_time, min_uptime, min_downtime of a plant
MaxSteps == 3   \* longest load series
MaxRuns == 2    \* run() invocations on one Scenario
\* Bits in the mantissa of a floating-point number (53 in a Python float).
MantissaBits == 3

(***************************************************************************)
(* Exact arithmetic on Power, Energy and factors.                          *)
(***************************************************************************)
Abs(n) == IF n < 0 THEN -n ELSE n

RECURSIVE GCD(_, _)
GCD(a, b) == IF b = 0 THEN a ELSE GCD(b, a % b)

Q(n, d) ==
    LET s == IF d < 0 THEN -1 ELSE 1
        g == GCD(Abs(n), Abs(d))
    IN  <<(s * n) \div g, (s * d) \div g>>

Zero == <<0, 1>>
One == <<1, 1>>
Half == <<1, 2>>
Int2Q(n) == <<n, 1>>

QAdd(a, b) == Q(a[1] * b[2] + b[1] * a[2], a[2] * b[2])
QSub(a, b) == Q(a[1] * b[2] - b[1] * a[2], a[2] * b[2])
QMul(a, b) == Q(a[1] * b[1], a[2] * b[2])
QDiv(a, b) == Q(a[1] * b[2], a[2] * b[1])
QNeg(a) == <<-a[1], a[2]>>
QLt(a, b) == a[1] * b[2] < b[1] * a[2]
QLe(a, b) == a[1] * b[2] <= b[1] * a[2]
QMin(a, b) == IF QLt(b, a) THEN b ELSE a
QMax(a, b) == IF QLt(a, b) THEN b ELSE a

RECURSIVE QSum(_)
QSum(s) == IF s = <<>> THEN Zero ELSE QAdd(s[1], QSum(Tail(s)))

(***************************************************************************)
(* PowerSource, DispatchableSource.                                        *)
(* p is a source as constructed (its parameters), s its mutable state.     *)
(***************************************************************************)
generation(p, s) == QMul(s.utilisation, p.nominal)

\* net_generation with self-consumption not deducted.
net_generation_Gross(p, s) == QMul(s.utilisation, p.nominal)

net_generation(p, s) == QMul(generation(p, s), QSub(One, p.self_consumption))

UtilisationOk(u) == QLe(Zero, u) /\ QLe(u, One)

\* The state a source has after construction.
PowerSource_init(p) ==
    IF p.kind = "thermal"
    THEN [utilisation |-> Zero, state |-> "ShutDown", counter |-> p.min_downtime]
    ELSE [utilisation |-> p.utilisation, state |-> "None", counter |-> 0]

\* The result of a call: the state it leaves, the value it returns, and the
\* assertion that failed, if one did (then nothing is returned).
Result(s, ret, raised) == [s |-> s, ret |-> ret, raised |-> raised]

\* Lines 131-132: the closing assertion on the state reached, and the value returned.
SourceReturn(p, s1) ==
    IF ~UtilisationOk(s1.utilisation) THEN Result(s1, Zero, "source.py:131")
    ELSE Result(s1, net_generation(p, s1), "none")

\* max_net_power with self-consumption not deducted.
max_net_power_Gross(p) == p.nominal

\* nominal * (1 - self_consumption)
max_net_power(p) == QMul(p.nominal, QSub(One, p.self_consumption))

\* min(power / max_net_power, 1)
required_factor(p, power) == QMin(QDiv(power, max_net_power(p)), One)

\* dispatch_at taking a negative request as a request of 0.
DispatchableSource_dispatch_at_Clamped(p, s, power) ==
    SourceReturn(p, [s EXCEPT !.utilisation = required_factor(p, QMax(power, Zero))])

DispatchableSource_dispatch_at(p, s, power) ==
    IF QLt(power, Zero) THEN Result(s, Zero, "source.py:123")
    ELSE SourceReturn(p, [s EXCEPT !.utilisation = required_factor(p, power)])

DispatchableSource_shut_down(p, s) == [s EXCEPT !.utilisation = Zero]

(***************************************************************************)
(* ThermalPowerPlant.                                                      *)
(***************************************************************************)
\* shut_down restarting the downtime count from every state.
ThermalPowerPlant_shut_down_Reset(p, s) ==
    [utilisation |-> Zero, state |-> "ShutDown", counter |-> 1]

\* shut_down leaving the plant as the constructor does, with the minimum
\* downtime already served.
ThermalPowerPlant_shut_down_Served(p, s) ==
    IF s.state = "ShutDown"
    THEN [utilisation |-> Zero, state |-> "ShutDown", counter |-> s.counter + 1]
    ELSE [utilisation |-> Zero, state |-> "ShutDown", counter |-> p.min_downtime]

ThermalPowerPlant_shut_down(p, s) ==
    IF s.state = "ShutDown"
    THEN [utilisation |-> Zero, state |-> "ShutDown", counter |-> s.counter + 1]
    ELSE [utilisation |-> Zero, state |-> "ShutDown", counter |-> 1]

_run(s) == [s EXCEPT !.state = "Running", !.counter = 1]

\* _start_up counting the call that commits to start as the first phase.
_start_up_Counted(s) == [s EXCEPT !.state = "StartingUp", !.counter = 1]

_start_up(s) == [s EXCEPT !.state = "StartingUp", !.counter = 0]

\* step leaving the counter as it is.
step_NoIncrement(s) == s

step(s) == [s EXCEPT !.counter = @ + 1]

\* BelowMinLoad with the threshold taken net of self-consumption.
BelowMinLoad_Net(p, power) ==
    QLt(power, QMul(QMul(p.min_load, p.nominal), QSub(One, p.self_consumption)))

\* BelowMinLoad taking a request of exactly min_load * nominal as too low.
BelowMinLoad_Inclusive(p, power) == QLe(power, QMul(p.min_load, p.nominal))

\* BelowMinLoad with the nominal power for the threshold.
BelowMinLoad_Nominal(p, power) == QLt(power, p.nominal)

\* power < min_load * nominal
BelowMinLoad(p, power) == QLt(power, QMul(p.min_load, p.nominal))

\* RampUtilisation with the division by 1 - self_consumption left out.
RampUtilisation_Gross(p, phase) ==
    QMul(QDiv(Int2Q(phase), Int2Q(p.startup_time)), p.min_load)

\* The ramp of line 263: phase / startup_time * min_load / (1 - self_consumption)
RampUtilisation(p, phase) ==
    QDiv(QMul(QDiv(Int2Q(phase), Int2Q(p.startup_time)), p.min_load),
         QSub(One, p.self_consumption))

\* The state the branches of dispatch_at leave, assertions aside.
ThermalTransition(p, s, power) ==
    CASE s.state = "ShutDown" ->
            IF BelowMinLoad(p, power) \/ s.counter < p.min_downtime
            THEN step(s)
            ELSE IF p.startup_time > 0
            THEN _start_up(s)
            ELSE [_run(s) EXCEPT !.utilisation = required_factor(p, power)]
      [] s.state = "StartingUp" ->
            IF s.counter = p.startup_time
            THEN IF BelowMinLoad(p, power)
                 THEN IF p.min_uptime = 0
                      THEN ThermalPowerPlant_shut_down(p, _run(s))
                      ELSE [_run(s) EXCEPT !.utilisation = p.min_load]
                 ELSE [_run(s) EXCEPT !.utilisation = required_factor(p, power)]
            ELSE [step(s) EXCEPT !.utilisation = RampUtilisation(p, s.counter + 1)]
      [] OTHER ->
            IF BelowMinLoad(p, power)
            THEN IF s.counter + 1 < p.min_uptime
                 THEN [step(s) EXCEPT !.utilisation = p.min_load]
                 ELSE ThermalPowerPlant_shut_down(p, step(s))
            ELSE [step(s) EXCEPT !.utilisation = required_factor(p, power)]

\* Lines 249, 277 and 278: the closing assertions on the state s1 that a call
\* made in state s has reached, and the value returned.
ThermalReturn(p, s, s1) ==
    IF ~UtilisationOk(s1.utilisation)
    THEN Result(s1, Zero, IF s.state = "ShutDown" THEN "source.py:249" ELSE "source.py:277")
    ELSE Result(s1, net_generation(p, s1), "none")

ThermalPowerPlant_dispatch_at(p, s, power) ==
    IF QLt(power, Zero) THEN Result(s, Zero, "source.py:226")
    ELSE IF s.state = "ShutDown" /\ net_generation(p, s) # Zero
    THEN Result(s, Zero, "source.py:234")
    ELSE IF s.state = "StartingUp" /\ ~(p.startup_time > 0)
    THEN Result(s, Zero, "source.py:251")
    ELSE ThermalReturn(p, s, ThermalTransition(p, s, power))

\* unit.dispatch_at(power) and unit.shut_down() on a flexible source of either class.
dispatch_at(p, s, power) ==
    IF p.kind = "thermal"
    THEN ThermalPowerPlant_dispatch_at(p, s, power)
    ELSE DispatchableSource_dispatch_at(p, s, power)

shut_down(p, s) ==
    IF p.kind = "thermal"
    THEN ThermalPowerPlant_shut_down(p, s)
    ELSE DispatchableSource_shut_down(p, s)

(***************************************************************************)
(* EnergyStorage.  u is a unit as constructed, e its mutable state.        *)
(***************************************************************************)
EnergyStorage_init(u) == [current_energy |-> Zero, current_output |-> Zero]

remaining_capacity(u, e) == QSub(u.max_storage, e.current_energy)

\* Charged storing the whole of the charging power, efficiency not applied.
Charged_Lossless(u, e, charging) ==
    [current_energy |-> QAdd(e.current_energy, charging),
     current_output |-> QNeg(charging)]

\* Lines 65-66: store efficiency * charging.
Charged(u, e, charging) ==
    [current_energy |-> QAdd(e.current_energy, QMul(u.efficiency, charging)),
     current_output |-> QNeg(charging)]

\* min(power, nominal, remaining_capacity)
Charging(u, e, power) == QMin(QMin(power, u.nominal), remaining_capacity(u, e))

EnergyStorage_charge_at(u, e, power) ==
    IF QLt(power, Zero) THEN Result(e, Zero, "storage.py:59")
    ELSE IF ~QLe(Charged(u, e, Charging(u, e, power)).current_energy, u.max_storage)
    THEN Result(Charged(u, e, Charging(u, e, power)), Zero, "storage.py:68")
    ELSE Result(Charged(u, e, Charging(u, e, power)), Charging(u, e, power), "none")

\* Discharged with the stored energy left as it was.
Discharged_EnergyKept(u, e, discharging) ==
    [current_energy |-> e.current_energy, current_output |-> discharging]

\* Lines 88-89: draw the energy discharged.
Discharged(u, e, discharging) ==
    [current_energy |-> QSub(e.current_energy, discharging),
     current_output |-> discharging]

\* Discharging limited by the request and the nominal power alone.
Discharging_NotStored(u, e, power) == QMin(power, u.nominal)

\* min(power, current_energy, nominal)
Discharging(u, e, power) == QMin(QMin(power, e.current_energy), u.nominal)

EnergyStorage_discharge_at(u, e, power) ==
    IF QLt(power, Zero) THEN Result(e, Zero, "storage.py:81")
    ELSE IF ~QLe(Zero, Discharged(u, e, Discharging(u, e, power)).current_energy)
    THEN Result(Discharged(u, e, Discharging(u, e, power)), Zero, "storage.py:91")
    ELSE Result(Discharged(u, e, Discharging(u, e, power)), Discharging(u, e, power), "none")

(***************************************************************************)
(* Floating point: x = m * 2^e with 2^(MantissaBits-1) <= m < 2^MantissaBits,*)
(* every operation rounding its exact result to the nearest such number,   *)
(* ties to the even mantissa.                                              *)
(***************************************************************************)
Pow2Q(e) == IF e >= 0 THEN Int2Q(2^e) ELSE Q(1, 2^(-e))

\* The exponent e of a positive x, searched from e.
RECURSIVE Exponent(_, _)
Exponent(x, e) ==
    IF e >= 0 /\ ~QLt(x, Pow2Q(MantissaBits + e)) THEN Exponent(x, e + 1)
    ELSE IF e <= 0 /\ QLt(QDiv(x, Pow2Q(e)), Pow2Q(MantissaBits - 1)) THEN Exponent(x, e - 1)
    ELSE e

\* The integer nearest to a positive q, a tie going to the even one.
Nearest(q) ==
    IF 2 * (q[1] % q[2]) > q[2] \/ (2 * (q[1] % q[2]) = q[2] /\ (q[1] \div q[2]) % 2 = 1)
    THEN (q[1] \div q[2]) + 1
    ELSE q[1] \div q[2]

Rounded(x, e) == QMul(Int2Q(Nearest(QDiv(x, Pow2Q(e)))), Pow2Q(e))

float(x) ==
    IF x[1] = 0 THEN Zero
    ELSE IF x[1] < 0 THEN QNeg(Rounded(QNeg(x), Exponent(QNeg(x), 0)))
    ELSE Rounded(x, Exponent(x, 0))

\* EnergyStorage in floating point.
float_remaining_capacity(u, e) == float(QSub(u.max_storage, e.current_energy))

float_Charged(u, e, charging) ==
    [current_energy |-> float(QAdd(e.current_energy, float(QMul(u.efficiency, charging)))),
     current_output |-> QNeg(charging)]

float_Charging(u, e, power) ==
    QMin(QMin(power, u.nominal), float_remaining_capacity(u, e))

float_charge_result(u, e1, charging) ==
    IF ~QLe(e1.current_energy, u.max_storage)
    THEN Result(e1, Zero, "storage.py:68")
    ELSE Result(e1, charging, "none")

float_charge_at(u, e, power) ==
    IF QLt(power, Zero) THEN Result(e, Zero, "storage.py:59")
    ELSE float_charge_result(u, float_Charged(u, e, float_Charging(u, e, power)),
                             float_Charging(u, e, power))

float_Discharged(u, e, discharging) ==
    [current_energy |-> float(QSub(e.current_energy, discharging)),
     current_output |-> discharging]

float_discharge_result(u, e1, discharging) ==
    IF ~QLe(Zero, e1.current_energy)
    THEN Result(e1, Zero, "storage.py:91")
    ELSE Result(e1, discharging, "none")

float_discharge_at(u, e, power) ==
    IF QLt(power, Zero) THEN Result(e, Zero, "storage.py:81")
    ELSE float_discharge_result(u, float_Discharged(u, e, Discharging(u, e, power)),
                                Discharging(u, e, power))

(***************************************************************************)
(* CrossBorderTerminal.  The state is net_import alone.                    *)
(***************************************************************************)
\* export_at returning net_import itself, a negative number.
CrossBorderTerminal_export_at_Signed(capacity, ni, power) ==
    IF QLt(power, Zero) THEN Result(ni, Zero, "cross_border.py:33")
    ELSE Result(QNeg(QMin(capacity, power)), QNeg(QMin(capacity, power)), "none")

\* import_at adding to the net import of the calls before it.
CrossBorderTerminal_import_at_Accumulating(capacity, ni, power) ==
    IF QLt(power, Zero) THEN Result(ni, Zero, "cross_border.py:48")
    ELSE Result(QAdd(ni, QMin(capacity, power)), QMin(capacity, power), "none")

CrossBorderTerminal_export_at(capacity, ni, power) ==
    IF QLt(power, Zero) THEN Result(ni, Zero, "cross_border.py:33")
    ELSE Result(QNeg(QMin(capacity, power)), QNeg(QNeg(QMin(capacity, power))), "none")

CrossBorderTerminal_import_at(capacity, ni, power) ==
    IF QLt(power, Zero) THEN Result(ni, Zero, "cross_border.py:48")
    ELSE Result(QMin(capacity, power), QMin(capacity, power), "none")

(***************************************************************************)
(* SourceDispatcher, StorageDispatcher.                                    *)
(* A dispatcher call yields the units' new states, the value returned,     *)
(* the assertion that failed (the exception leaves the loop at once), and  *)
(* the calls made on the units, in order.                                  *)
(***************************************************************************)
Call(obj, op, arg, ret, raised) ==
    [obj |-> obj, op |-> op, arg |-> arg, ret |-> ret, raised |-> raised]

Dispatched(units, ret, raised, cs) ==
    [units |-> units, ret |-> ret, raised |-> raised, calls |-> cs]

\* One unit call of a dispatcher's loop, by the operation's name.
UnitCall(op, p, s, power) ==
    CASE op = "dispatch_at" -> dispatch_at(p, s, power)
      [] op = "charge_at" -> EnergyStorage_charge_at(p, s, power)
      [] OTHER -> EnergyStorage_discharge_at(p, s, power)

\* for unit in self._units: total += unit.<op>(max(0, power - total))
\* DispatchLoop is the loop from unit k on; LoopBody is one pass, r being what
\* the call on unit k with the given request has yielded.
RECURSIVE DispatchLoop(_, _, _, _, _, _, _)
RECURSIVE LoopBody(_, _, _, _, _, _, _, _, _)
\* LoopBody keeping the last value returned in place of the running sum.
LoopBody_LastOnly(op, ps, ss, power, k, total, cs, request, r) ==
    IF r.raised # "none"
    THEN Dispatched([ss EXCEPT ![k] = r.s], Zero, r.raised,
                    Append(cs, Call(ps[k].name, op, request, r.ret, r.raised)))
    ELSE DispatchLoop(op, ps, [ss EXCEPT ![k] = r.s], power, k + 1, r.ret,
                      Append(cs, Call(ps[k].name, op, request, r.ret, r.raised)))

LoopBody(op, ps, ss, power, k, total, cs, request, r) ==
    IF r.raised # "none"
    THEN Dispatched([ss EXCEPT ![k] = r.s], Zero, r.raised,
                    Append(cs, Call(ps[k].name, op, request, r.ret, r.raised)))
    ELSE DispatchLoop(op, ps, [ss EXCEPT ![k] = r.s], power, k + 1, QAdd(total, r.ret),
                      Append(cs, Call(ps[k].name, op, request, r.ret, r.raised)))

\* UnitRequest asking every unit for the whole of the power.
UnitRequest_Whole(power, total) == power

\* UnitRequest sharing the power out: every unit is asked for half of what
\* is still to be covered.
UnitRequest_Shared(power, total) == QDiv(QMax(Zero, QSub(power, total)), Int2Q(2))

\* max(0, power - total)
UnitRequest(power, total) == QMax(Zero, QSub(power, total))

DispatchLoop(op, ps, ss, power, k, total, cs) ==
    IF k > Len(ps) THEN Dispatched(ss, total, "none", cs)
    ELSE LoopBody(op, ps, ss, power, k, total, cs, UnitRequest(power, total),
                  UnitCall(op, ps[k], ss[k], UnitRequest(power, total)))

\* SourceDispatcher.dispatch_at asking every unit for the whole of the power,
\* whatever the units before it have generated.
SourceDispatcher_dispatch_at_Unreduced(ps, ss, power) ==
    IF QLt(power, Zero) THEN Dispatched(ss, Zero, "dispatch.py:34", <<>>)
    ELSE Dispatched([k \in 1..Len(ps) |-> dispatch_at(ps[k], ss[k], power).s],
                    QSum([k \in 1..Len(ps) |-> dispatch_at(ps[k], ss[k], power).ret]),
                    "none",
                    [k \in 1..Len(ps) |->
                        Call(ps[k].name, "dispatch_at", power,
                             dispatch_at(ps[k], ss[k], power).ret, "none")])

SourceDispatcher_dispatch_at(ps, ss, power) ==
    IF QLt(power, Zero) THEN Dispatched(ss, Zero, "dispatch.py:34", <<>>)
    ELSE DispatchLoop("dispatch_at", ps, ss, power, 1, Zero, <<>>)

SourceDispatcher_shut_down_all(ps, ss) ==
    Dispatched([k \in 1..Len(ps) |-> shut_down(ps[k], ss[k])], Zero, "none",
               [k \in 1..Len(ps) |-> Call(ps[k].name, "shut_down", Zero, Zero, "none")])

\* The tolerance of the dispatchers' post-condition, 1e-6.
Epsilon == <<1, 1000000>>

\* x <= 1e-6, computed without the product that x[1] * 1000000 would overflow.
WithinEpsilon(x) == x[1] <= 0 \/ x[1] <= x[2] \div Epsilon[2]

\* assert total - power <= 1e-6, on what the loop has yielded.
PostCondition(d, power, line) ==
    IF d.raised = "none" /\ ~WithinEpsilon(QSub(d.ret, power))
    THEN [d EXCEPT !.raised = line, !.ret = Zero]
    ELSE d

StorageDispatcher_charge_at(us, es, power) ==
    IF QLt(power, Zero) THEN Dispatched(es, Zero, "dispatch.py:60", <<>>)
    ELSE PostCondition(DispatchLoop("charge_at", us, es, power, 1, Zero, <<>>),
                       power, "dispatch.py:67")

StorageDispatcher_discharge_at(us, es, power) ==
    IF QLt(power, Zero) THEN Dispatched(es, Zero, "dispatch.py:75", <<>>)
    ELSE PostCondition(DispatchLoop("discharge_at", us, es, power, 1, Zero, <<>>),
                       power, "dispatch.py:82")

\* StorageDispatcher in floating point: the loop of lines 63-64 and 78-79
\* over units computed in floating point, the sum and the residual rounded.
float_UnitCall(op, u, e, power) ==
    IF op = "charge_at" THEN float_charge_at(u, e, power) ELSE float_discharge_at(u, e, power)

RECURSIVE float_DispatchLoop(_, _, _, _, _, _, _)
float_LoopBody(op, us, es, power, k, total, cs, request, r) ==
    IF r.raised # "none"
    THEN Dispatched([es EXCEPT ![k] = r.s], Zero, r.raised,
                    Append(cs, Call(us[k].name, op, request, r.ret, r.raised)))
    ELSE float_DispatchLoop(op, us, [es EXCEPT ![k] = r.s], power, k + 1,
                            float(QAdd(total, r.ret)),
                            Append(cs, Call(us[k].name, op, request, r.ret, r.raised)))

float_UnitRequest(power, total) == QMax(Zero, float(QSub(power, total)))

float_DispatchLoop(op, us, es, power, k, total, cs) ==
    IF k > Len(us) THEN Dispatched(es, total, "none", cs)
    ELSE float_LoopBody(op, us, es, power, k, total, cs, float_UnitRequest(power, total),
                        float_UnitCall(op, us[k], es[k], float_UnitRequest(power, total)))

\* assert total - power <= 1e-6, the difference rounded.
float_PostCondition(d, power, line) ==
    IF d.raised = "none" /\ ~WithinEpsilon(float(QSub(d.ret, power)))
    THEN [d EXCEPT !.raised = line, !.ret = Zero]
    ELSE d

float_StorageDispatcher_charge_at(us, es, power) ==
    IF QLt(power, Zero) THEN Dispatched(es, Zero, "dispatch.py:60", <<>>)
    ELSE float_PostCondition(float_DispatchLoop("charge_at", us, es, power, 1, Zero, <<>>),
                             power, "dispatch.py:67")

float_StorageDispatcher_discharge_at(us, es, power) ==
    IF QLt(power, Zero) THEN Dispatched(es, Zero, "dispatch.py:75", <<>>)
    ELSE float_PostCondition(float_DispatchLoop("discharge_at", us, es, power, 1, Zero, <<>>),
                             power, "dispatch.py:82")

SourceDispatcher_net_generation(ps, ss) ==
    QSum([k \in 1..Len(ps) |-> net_generation(ps[k], ss[k])])

(***************************************************************************)
(* ScenarioRun.                                                            *)
(***************************************************************************)
\* A defaultdict(list): absent keys read as the empty list.
EmptyDict == [n \in {} |-> <<>>]

DictGet(d, k) == IF k \in DOMAIN d THEN d[k] ELSE <<>>

DictAppend(d, k, v) ==
    IF k \in DOMAIN d THEN [d EXCEPT ![k] = Append(@, v)] ELSE d @@ (k :> <<v>>)

ScenarioRun_init ==
    [steps |-> 0, source_generation |-> EmptyDict, storage_output |-> EmptyDict,
     net_import |-> <<>>, shortage |-> <<>>]

\* for x in xs: d[x.name].append(x.value), names and values being sequences.
RECURSIVE AppendAll(_, _, _)
AppendAll(d, names, values) ==
    IF names = <<>> THEN d
    ELSE AppendAll(DictAppend(d, names[1], values[1]), Tail(names), Tail(values))

\* power_sources of Scenario.run: baseloads + intermittents + flexibles.
PowerSourceNames(sc) ==
    [k \in 1..Len(sc.baseloads) |-> sc.baseloads[k].name]
        \o [k \in 1..Len(sc.intermittents) |-> sc.intermittents[k].source.name]
        \o [k \in 1..Len(sc.flexibles) |-> sc.flexibles[k].name]

\* The state of a baseload source: its utilisation stays as constructed.
BaseState(p) == [utilisation |-> p.utilisation]

PowerSourceNetGeneration(sc, iu, fs) ==
    [k \in 1..Len(sc.baseloads) |-> net_generation(sc.baseloads[k], BaseState(sc.baseloads[k]))]
        \o [k \in 1..Len(sc.intermittents) |->
                net_generation(sc.intermittents[k].source, [utilisation |-> iu[k]])]
        \o [k \in 1..Len(sc.flexibles) |-> net_generation(sc.flexibles[k], fs[k])]

\* sweep recording the sources and the step, the storage units left out.
sweep_SourcesOnly(st, sc, iu, fs, es, ni) ==
    [st EXCEPT
        !.source_generation =
            AppendAll(@, PowerSourceNames(sc), PowerSourceNetGeneration(sc, iu, fs)),
        !.net_import = IF sc.cross_border.present THEN Append(@, ni) ELSE @,
        !.steps = @ + 1]

sweep(st, sc, iu, fs, es, ni) ==
    [st EXCEPT
        !.source_generation =
            AppendAll(@, PowerSourceNames(sc), PowerSourceNetGeneration(sc, iu, fs)),
        !.storage_output =
            AppendAll(@, [k \in 1..Len(sc.storages) |-> sc.storages[k].name],
                         [k \in 1..Len(sc.storages) |-> es[k].current_output]),
        !.net_import = IF sc.cross_border.present THEN Append(@, ni) ELSE @,
        !.steps = @ + 1]

compute_generation(st, source_name) == QSum(DictGet(st.source_generation, source_name))

\* sum(x for x in s if x < 0) and sum(x for x in s if x > 0)
RECURSIVE NegativeSum(_)
NegativeSum(s) ==
    IF s = <<>> THEN Zero
    ELSE QAdd(IF QLt(s[1], Zero) THEN s[1] ELSE Zero, NegativeSum(Tail(s)))

RECURSIVE PositiveSum(_)
PositiveSum(s) ==
    IF s = <<>> THEN Zero
    ELSE QAdd(IF QLt(Zero, s[1]) THEN s[1] ELSE Zero, PositiveSum(Tail(s)))

\* compute_total_charging with the sign of the sum kept.
compute_total_charging_Signed(st, sc) ==
    QSum([k \in 1..Len(sc.storages) |->
             NegativeSum(DictGet(st.storage_output, sc.storages[k].name))])

\* Lines 53-57; sc gives the storage units the ScenarioRun was built over.
compute_total_charging(st, sc) ==
    QMul(Int2Q(-1),
         QSum([k \in 1..Len(sc.storages) |->
                  NegativeSum(DictGet(st.storage_output, sc.storages[k].name))]))

compute_total_discharging(st, sc) ==
    QSum([k \in 1..Len(sc.storages) |->
             PositiveSum(DictGet(st.storage_output, sc.storages[k].name))])

compute_total_dump(st) == QNeg(NegativeSum(st.shortage))

compute_total_export(st) == QMul(Int2Q(-1), NegativeSum(st.net_import))

compute_total_import(st) == PositiveSum(st.net_import)

compute_total_shortage(st) == PositiveSum(st.shortage)

\* Lines 79-91: the steps in which any recorded storage output is < 0, and > 0.
count_charging_steps(st) ==
    Cardinality({t \in 1..st.steps :
                    \E n \in DOMAIN st.storage_output : QLt(st.storage_output[n][t], Zero)})

count_discharging_steps(st) ==
    Cardinality({t \in 1..st.steps :
                    \E n \in DOMAIN st.storage_output : QLt(Zero, st.storage_output[n][t])})

count_generation_steps(st, source_name) ==
    Cardinality({t \in 1..Len(DictGet(st.source_generation, source_name)) :
                    QLt(Zero, DictGet(st.source_generation, source_name)[t])})

(***************************************************************************)
(* Scenario._step: the balancing of one time step.                         *)
(* It yields the state of every resource after the step, the shortage      *)
(* returned, the assertion that failed, and the calls made, in order.      *)
(***************************************************************************)
Stepped(fs, es, ni, ret, raised, cs) ==
    [flex |-> fs, stor |-> es, net_import |-> ni, ret |-> ret, raised |-> raised,
     calls |-> cs]

inflexible_generation(sc, iu) ==
    QAdd(QSum([k \in 1..Len(sc.baseloads) |->
                  net_generation(sc.baseloads[k], BaseState(sc.baseloads[k]))]),
         QSum([k \in 1..Len(sc.intermittents) |->
                  net_generation(sc.intermittents[k].source, [utilisation |-> iu[k]])]))

\* self._cross_border.export_at(x) if self._cross_border else 0, and the same of import_at.
TerminalCall(sc, op, ni, power) ==
    IF ~sc.cross_border.present THEN Result(ni, Zero, "none")
    ELSE IF op = "export_at"
    THEN CrossBorderTerminal_export_at(sc.cross_border.capacity, ni, power)
    ELSE CrossBorderTerminal_import_at(sc.cross_border.capacity, ni, power)

TerminalCalls(sc, op, power, r) ==
    IF sc.cross_border.present
    THEN <<Call("cross_border", op, power, r.ret, r.raised)>>
    ELSE <<>>

\* The log entry of a dispatcher call, followed by the calls it made on its units.
Logged(obj, op, arg, d) == <<Call(obj, op, arg, d.ret, d.raised)>> \o d.calls

\* SurplusExported returning the dump as a positive number.
SurplusExported_Positive(off, ch, ex, surplus1, cs) ==
    IF ex.raised # "none" THEN Stepped(off.units, ch.units, ex.s, Zero, ex.raised, cs)
    ELSE Stepped(off.units, ch.units, ex.s, QMax(Zero, QSub(surplus1, ex.ret)), "none", cs)

\* Lines 239-256: inflexible generation covers consumption.  off is what
\* shut_down_all has yielded, ch what charge_at has, ex what export_at has;
\* surplus1 is the surplus after line 248.
SurplusExported(off, ch, ex, surplus1, cs) ==
    IF ex.raised # "none" THEN Stepped(off.units, ch.units, ex.s, Zero, ex.raised, cs)
    ELSE Stepped(off.units, ch.units, ex.s, QNeg(QMax(Zero, QSub(surplus1, ex.ret))), "none", cs)

SurplusExport(sc, off, ch, surplus1, cs, ex) ==
    SurplusExported(off, ch, ex, surplus1, cs \o TerminalCalls(sc, "export_at", surplus1, ex))

SurplusCharged(sc, ni, off, ch, surplus1, cs) ==
    IF ch.raised # "none" THEN Stepped(off.units, ch.units, ni, Zero, ch.raised, cs)
    ELSE SurplusExport(sc, off, ch, surplus1, cs, TerminalCall(sc, "export_at", ni, surplus1))

\* SurplusCharge offering the terminal the whole surplus, charging not deducted.
SurplusCharge_WholeSurplus(sc, ni, off, surplus, ch) ==
    SurplusCharged(sc, ni, off, ch, QMax(Zero, surplus),
                   Logged("flexibles_dispatcher", "shut_down_all", Zero, off)
                       \o Logged("storage_dispatcher", "charge_at", surplus, ch))

SurplusCharge(sc, ni, off, surplus, ch) ==
    SurplusCharged(sc, ni, off, ch, QMax(Zero, QSub(surplus, ch.ret)),
                   Logged("flexibles_dispatcher", "shut_down_all", Zero, off)
                       \o Logged("storage_dispatcher", "charge_at", surplus, ch))

\* StepSurplus with line 241 left out: the flexible sources are left as the
\* step before left them.
StepSurplus_NoShutDown(sc, fs, es, ni, inflexible, consumption) ==
    SurplusCharge(sc, ni, Dispatched(fs, Zero, "none", <<>>),
                  QSub(inflexible, consumption),
                  StorageDispatcher_charge_at(sc.storages, es, QSub(inflexible, consumption)))

StepSurplus(sc, fs, es, ni, inflexible, consumption) ==
    SurplusCharge(sc, ni, SourceDispatcher_shut_down_all(sc.flexibles, fs),
                  QSub(inflexible, consumption),
                  StorageDispatcher_charge_at(sc.storages, es, QSub(inflexible, consumption)))

\* DeficitImported with the import left out of the shortage returned.
DeficitImported_IgnoreImport(dis, fl, im, deficit2, cs) ==
    IF im.raised # "none" THEN Stepped(fl.units, dis.units, im.s, Zero, im.raised, cs)
    ELSE Stepped(fl.units, dis.units, im.s, QMax(Zero, deficit2), "none", cs)

\* Lines 258-281: consumption exceeds inflexible generation.  dis is what
\* discharge_at has yielded, fl what the flexibles' dispatcher has, im what
\* import_at has; deficit1 and deficit2 are the deficit after lines 264 and 271.
DeficitImported(dis, fl, im, deficit2, cs) ==
    IF im.raised # "none" THEN Stepped(fl.units, dis.units, im.s, Zero, im.raised, cs)
    ELSE Stepped(fl.units, dis.units, im.s, QMax(Zero, QSub(deficit2, im.ret)), "none", cs)

DeficitImport(sc, dis, fl, deficit2, cs, im) ==
    DeficitImported(dis, fl, im, deficit2, cs \o TerminalCalls(sc, "import_at", deficit2, im))

DeficitDispatched(sc, ni, dis, fl, deficit2, cs) ==
    IF fl.raised # "none" THEN Stepped(fl.units, dis.units, ni, Zero, fl.raised, cs)
    ELSE DeficitImport(sc, dis, fl, deficit2, cs, TerminalCall(sc, "import_at", ni, deficit2))

\* DeficitDispatch with line 271 left out: the deficit is not reduced by what
\* the flexible sources generate.
DeficitDispatch_NotReduced(sc, ni, dis, deficit1, cs, fl) ==
    IF QLt(Zero, deficit1)
    THEN DeficitDispatched(sc, ni, dis, fl, deficit1,
                           cs \o Logged("flexibles_dispatcher", "dispatch_at", deficit1, fl))
    ELSE DeficitDispatched(sc, ni, dis, fl, deficit1,
                           cs \o Logged("flexibles_dispatcher", "shut_down_all", Zero, fl))

DeficitDispatch(sc, ni, dis, deficit1, cs, fl) ==
    IF QLt(Zero, deficit1)
    THEN DeficitDispatched(sc, ni, dis, fl, QMax(Zero, QSub(deficit1, fl.ret)),
                           cs \o Logged("flexibles_dispatcher", "dispatch_at", deficit1, fl))
    ELSE DeficitDispatched(sc, ni, dis, fl, deficit1,
                           cs \o Logged("flexibles_dispatcher", "shut_down_all", Zero, fl))

\* DeficitDischarged with lines 272-273 left out: with no deficit left, the
\* flexible sources are not touched.
DeficitDischarged_NoShutDown(sc, fs, ni, dis, deficit1, cs) ==
    IF dis.raised # "none" THEN Stepped(fs, dis.units, ni, Zero, dis.raised, cs)
    ELSE DeficitDispatch(sc, ni, dis, deficit1, cs,
                         IF QLt(Zero, deficit1)
                         THEN SourceDispatcher_dispatch_at(sc.flexibles, fs, deficit1)
                         ELSE Dispatched(fs, Zero, "none", <<>>))

DeficitDischarged(sc, fs, ni, dis, deficit1, cs) ==
    IF dis.raised # "none" THEN Stepped(fs, dis.units, ni, Zero, dis.raised, cs)
    ELSE DeficitDispatch(sc, ni, dis, deficit1, cs,
                         IF QLt(Zero, deficit1)
                         THEN SourceDispatcher_dispatch_at(sc.flexibles, fs, deficit1)
                         ELSE SourceDispatcher_shut_down_all(sc.flexibles, fs))

\* DeficitDischarge with line 264 left out: the deficit is not reduced by what
\* the storage units discharge.
DeficitDischarge_NotDeducted(sc, fs, ni, deficit, dis) ==
    DeficitDischarged(sc, fs, ni, dis, QMax(Zero, deficit),
                      Logged("storage_dispatcher", "discharge_at", deficit, dis))

DeficitDischarge(sc, fs, ni, deficit, dis) ==
    DeficitDischarged(sc, fs, ni, dis, QMax(Zero, QSub(deficit, dis.ret)),
                      Logged("storage_dispatcher", "discharge_at", deficit, dis))

StepDeficit(sc, fs, es, ni, inflexible, consumption) ==
    DeficitDischarge(sc, fs, ni, QSub(consumption, inflexible),
                     StorageDispatcher_discharge_at(sc.storages, es, QSub(consumption, inflexible)))

_step(sc, iu, fs, es, ni, consumption) ==
    IF QLe(consumption, inflexible_generation(sc, iu))
    THEN StepSurplus(sc, fs, es, ni, inflexible_generation(sc, iu), consumption)
    ELSE StepDeficit(sc, fs, es, ni, inflexible_generation(sc, iu), consumption)

\* gross_consumption of step t (counted from 1): load[t] * (1 + losses)
gross_consumption(sc, t) == QMul(sc.load[t], QAdd(One, sc.losses))

(***************************************************************************)
(* The units and scenarios the model is run on.                            *)
(***************************************************************************)
Counts == 0..MaxCount

Source(name, kind, nominal, self_consumption, utilisation) ==
    [name |-> name, kind |-> kind, nominal |-> Int2Q(nominal),
     self_consumption |-> self_consumption, utilisation |-> utilisation,
     min_load |-> Zero, min_downtime |-> 0, min_uptime |-> 0, startup_time |-> 0]

Thermal(name, nominal, self_consumption, min_load, min_downtime, min_uptime, startup_time) ==
    [Source(name, "thermal", nominal, self_consumption, Zero) EXCEPT
        !.min_load = min_load, !.min_downtime = min_downtime,
        !.min_uptime = min_uptime, !.startup_time = startup_time]

Storage(name, nominal, max_storage, efficiency) ==
    [name |-> name, nominal |-> Int2Q(nominal), max_storage |-> Int2Q(max_storage),
     efficiency |-> efficiency]

NoTerminal == [present |-> FALSE, capacity |-> Zero]
Terminal(capacity) == [present |-> TRUE, capacity |-> Int2Q(capacity)]

\* Dispatchable sources put under direct calls.
SourceUnits ==
    {Source("gas", "plain", 1000, sc, One) : sc \in {Zero, Half}}
    \cup {Thermal("coal", 1000, sc, ml, down, up, start) :
            sc \in {Zero, Half}, ml \in {Zero, Half, One},
            down \in Counts, up \in Counts, start \in Counts}

\* Storage units put under direct calls.
StorageUnits ==
    {Storage("battery", nominal, max, eff) :
        nominal \in {500, 1000}, max \in {500, 1000}, eff \in {Half, One}}

\* Power requested in direct calls on a source, and on a storage unit.
SourceRequests == {Zero, Int2Q(500), Int2Q(1000)}
StorageRequests == {Zero, Int2Q(300), Int2Q(1000)}

\* The fleets and series of the scenarios.
Nuclear == Source("nuclear", "base", 1000, Zero, One)
Wind == Source("wind", "base", 1000, Zero, One)
Gas == Source("gas", "plain", 500, Zero, One)
Coal == Thermal("coal", 1000, Zero, Half, 1, 2, 1)
Pumped == Storage("pumped", 500, 1000, One)
Battery == Storage("battery", 500, 500, Half)

LoadValues == {Int2Q(500), Int2Q(1000), Int2Q(1500)}
LoadSeries == UNION {[1..n -> LoadValues] : n \in 0..MaxSteps}

\* The capacity factors of the wind source over n steps.
CapFactors(n) == [t \in 1..n |-> IF t % 2 = 1 THEN Half ELSE One]

Scenarios ==
    {[load |-> load, baseloads |-> base, flexibles |-> fl,
      intermittents |-> IF wind THEN <<[source |-> Wind, cap_factor |-> CapFactors(Len(load))]>>
                        ELSE <<>>,
      storages |-> st, cross_border |-> cb, losses |-> losses] :
        load \in LoadSeries, base \in {<<>>, <<Nuclear>>}, wind \in BOOLEAN,
        fl \in {<<>>, <<Gas>>, <<Coal, Gas>>, <<Gas, Coal>>},
        st \in {<<>>, <<Pumped>>, <<Battery, Pumped>>},
        cb \in {NoTerminal, Terminal(500)}, losses \in {Zero, Half}}

\* A scenario holding nothing but the given units, for direct calls on them.
UnitScenario(fl, st, cb) ==
    [load |-> <<>>, baseloads |-> <<>>, flexibles |-> fl, intermittents |-> <<>>,
     storages |-> st, cross_border |-> cb, losses |-> Zero]

\* The state of every resource of a scenario after construction.
Constructed(sc) ==
    /\ scenario = sc
    /\ int_util = [k \in 1..Len(sc.intermittents) |-> sc.intermittents[k].source.utilisation]
    /\ flex = [k \in 1..Len(sc.flexibles) |-> PowerSource_init(sc.flexibles[k])]
    /\ stor = [k \in 1..Len(sc.storages) |-> EnergyStorage_init(sc.storages[k])]
    /\ net_import = Zero
    /\ stats = ScenarioRun_init
    /\ pc = "idle"
    /\ i = 0
    /\ runs = <<>>
    /\ calls = <<>>
    /\ hist = <<>>
    /\ err = "none"

(***************************************************************************)
(* Direct calls on one dispatchable source.                                *)
(***************************************************************************)
Made(op, arg, r, pre) ==
    [op |-> op, arg |-> arg, ret |-> r.ret, raised |-> r.raised, pre |-> pre, post |-> r.s]

InitSource == \E p \in SourceUnits : Constructed(UnitScenario(<<p>>, <<>>, NoTerminal))

DispatchAt ==
    /\ err = "none"
    /\ Len(hist) < MaxCalls
    /\ \E power \in SourceRequests :
        \E r \in {dispatch_at(scenario.flexibles[1], flex[1], power)} :
            /\ flex' = <<r.s>>
            /\ hist' = Append(hist, Made("dispatch_at", power, r, flex[1]))
            /\ calls' = <<Call(scenario.flexibles[1].name, "dispatch_at", power, r.ret, r.raised)>>
            /\ err' = r.raised
    /\ UNCHANGED <<scenario, int_util, stor, net_import, stats, pc, i, runs>>

ShutDown ==
    /\ err = "none"
    /\ Len(hist) < MaxCalls
    /\ \E r \in {Result(shut_down(scenario.flexibles[1], flex[1]), Zero, "none")} :
           /\ flex' = <<r.s>>
           /\ hist' = Append(hist, Made("shut_down", Zero, r, flex[1]))
           /\ calls' = <<Call(scenario.flexibles[1].name, "shut_down", Zero, Zero, "none")>>
    /\ UNCHANGED <<scenario, int_util, stor, net_import, stats, pc, i, runs, err>>

NextSource == DispatchAt \/ ShutDown

SpecSource == InitSource /\ [][NextSource]_vars

(***************************************************************************)
(* Direct calls on one storage unit.                                       *)
(***************************************************************************)
InitStorage == \E u \in StorageUnits : Constructed(UnitScenario(<<>>, <<u>>, NoTerminal))

StorageCall(op) ==
    /\ err = "none"
    /\ Len(hist) < MaxCalls
    /\ \E power \in StorageRequests :
        \E r \in {UnitCall(op, scenario.storages[1], stor[1], power)} :
            /\ stor' = <<r.s>>
            /\ hist' = Append(hist, Made(op, power, r, stor[1]))
            /\ calls' = <<Call(scenario.storages[1].name, op, power, r.ret, r.raised)>>
            /\ err' = r.raised
    /\ UNCHANGED <<scenario, int_util, flex, net_import, stats, pc, i, runs>>

ChargeAt == StorageCall("charge_at")

DischargeAt == StorageCall("discharge_at")

NextStorage == ChargeAt \/ DischargeAt

SpecStorage == InitStorage /\ [][NextStorage]_vars

(***************************************************************************)
(* Direct calls on one storage unit, computed in floating point.  The      *)
(* parameters and the requests are floating-point numbers themselves.      *)
(***************************************************************************)
FloatStorageUnits ==
    {[name |-> "battery", nominal |-> float(Int2Q(nominal)),
      max_storage |-> float(Int2Q(max)), efficiency |-> eff] :
        nominal \in {4, 32}, max \in {7, 14, 22}, eff \in {Half, One}}

FloatStorageRequests == {Zero, float(Int2Q(3)), float(Int2Q(32))}

InitStorageFloat ==
    \E u \in FloatStorageUnits : Constructed(UnitScenario(<<>>, <<u>>, NoTerminal))

FloatStorageCall(op) ==
    /\ err = "none"
    /\ Len(hist) < MaxCalls
    /\ \E power \in FloatStorageRequests :
        \E r \in {IF op = "charge_at"
                  THEN float_charge_at(scenario.storages[1], stor[1], power)
                  ELSE float_discharge_at(scenario.storages[1], stor[1], power)} :
            /\ stor' = <<r.s>>
            /\ hist' = Append(hist, Made(op, power, r, stor[1]))
            /\ calls' = <<Call(scenario.storages[1].name, op, power, r.ret, r.raised)>>
            /\ err' = r.raised
    /\ UNCHANGED <<scenario, int_util, flex, net_import, stats, pc, i, runs>>

FloatChargeAt == FloatStorageCall("charge_at")

FloatDischargeAt == FloatStorageCall("discharge_at")

NextStorageFloat == FloatChargeAt \/ FloatDischargeAt

SpecStorageFloat == InitStorageFloat /\ [][NextStorageFloat]_vars

(***************************************************************************)
(* Direct calls on a SourceDispatcher or a StorageDispatcher; i counts the *)
(* calls made, calls holds the last call and the unit calls it made.       *)
(***************************************************************************)
PlainUnit(name) ==
    {Source(name, "plain", nominal, sc, One) : nominal \in {500, 1000}, sc \in {Zero, Half}}

SourceFleets ==
    {<<a, b, c>> : a \in PlainUnit("a"), b \in PlainUnit("b"), c \in PlainUnit("c")}
    \cup {<<Coal, Gas>>, <<Gas, Coal>>}

StorageFleets ==
    {<<Pumped>>, <<Battery, Pumped>>, <<Pumped, Battery>>,
     <<Battery, Pumped, Storage("p2g", 1000, 1000, Half)>>}

DispatchRequests == {Zero, Int2Q(300), Int2Q(500), Int2Q(1000), Int2Q(3000)}

InitDispatch ==
    \/ \E fs \in SourceFleets : Constructed(UnitScenario(fs, <<>>, NoTerminal))
    \/ \E us \in StorageFleets : Constructed(UnitScenario(<<>>, us, NoTerminal))

DispatchSources ==
    /\ err = "none"
    /\ i < MaxCalls
    /\ \E power \in DispatchRequests :
        \E d \in {SourceDispatcher_dispatch_at(scenario.flexibles, flex, power)} :
            /\ flex' = d.units
            /\ calls' = Logged("flexibles_dispatcher", "dispatch_at", power, d)
            /\ err' = d.raised
    /\ i' = i + 1
    /\ UNCHANGED <<scenario, int_util, stor, net_import, stats, pc, runs, hist>>

ShutDownAll ==
    /\ err = "none"
    /\ i < MaxCalls
    /\ \E d \in {SourceDispatcher_shut_down_all(scenario.flexibles, flex)} :
        /\ flex' = d.units
        /\ calls' = Logged("flexibles_dispatcher", "shut_down_all", Zero, d)
    /\ i' = i + 1
    /\ UNCHANGED <<scenario, int_util, stor, net_import, stats, pc, runs, hist, err>>

ChargeStorage ==
    /\ err = "none"
    /\ i < MaxCalls
    /\ \E power \in DispatchRequests :
        \E d \in {StorageDispatcher_charge_at(scenario.storages, stor, power)} :
            /\ stor' = d.units
            /\ calls' = Logged("storage_dispatcher", "charge_at", power, d)
            /\ err' = d.raised
    /\ i' = i + 1
    /\ UNCHANGED <<scenario, int_util, flex, net_import, stats, pc, runs, hist>>

DischargeStorage ==
    /\ err = "none"
    /\ i < MaxCalls
    /\ \E power \in DispatchRequests :
        \E d \in {StorageDispatcher_discharge_at(scenario.storages, stor, power)} :
            /\ stor' = d.units
            /\ calls' = Logged("storage_dispatcher", "discharge_at", power, d)
            /\ err' = d.raised
    /\ i' = i + 1
    /\ UNCHANGED <<scenario, int_util, flex, net_import, stats, pc, runs, hist>>

NextDispatch == DispatchSources \/ ShutDownAll \/ ChargeStorage \/ DischargeStorage

SpecDispatch == InitDispatch /\ [][NextDispatch]_vars

(***************************************************************************)
(* Direct calls on a StorageDispatcher, computed in floating point.        *)
(***************************************************************************)
FloatFleetUnit(name) ==
    {[name |-> name, nominal |-> float(Int2Q(nominal)),
      max_storage |-> float(Int2Q(max)), efficiency |-> One] :
        nominal \in {3, 32}, max \in {14, 32}}

FloatStorageFleets ==
    {<<a>> : a \in FloatFleetUnit("a")}
    \cup {<<a, b>> : a \in FloatFleetUnit("a"), b \in FloatFleetUnit("b")}

FloatDispatchRequests == {Zero, float(Int2Q(3)), float(Int2Q(14)), float(Int2Q(32))}

InitDispatchFloat ==
    \E us \in FloatStorageFleets : Constructed(UnitScenario(<<>>, us, NoTerminal))

FloatChargeStorage ==
    /\ err = "none"
    /\ i < MaxCalls
    /\ \E power \in FloatDispatchRequests :
        \E d \in {float_StorageDispatcher_charge_at(scenario.storages, stor, power)} :
            /\ stor' = d.units
            /\ calls' = Logged("storage_dispatcher", "charge_at", power, d)
            /\ err' = d.raised
    /\ i' = i + 1
    /\ UNCHANGED <<scenario, int_util, flex, net_import, stats, pc, runs, hist>>

FloatDischargeStorage ==
    /\ err = "none"
    /\ i < MaxCalls
    /\ \E power \in FloatDispatchRequests :
        \E d \in {float_StorageDispatcher_discharge_at(scenario.storages, stor, power)} :
            /\ stor' = d.units
            /\ calls' = Logged("storage_dispatcher", "discharge_at", power, d)
            /\ err' = d.raised
    /\ i' = i + 1
    /\ UNCHANGED <<scenario, int_util, flex, net_import, stats, pc, runs, hist>>

NextDispatchFloat == FloatChargeStorage \/ FloatDischargeStorage

SpecDispatchFloat == InitDispatchFloat /\ [][NextDispatchFloat]_vars

(***************************************************************************)
(* Direct calls on a CrossBorderTerminal.                                  *)
(***************************************************************************)
TerminalCapacities == {0, 500, 1000}

TerminalRequests == {Int2Q(-300), Zero, Int2Q(300), Int2Q(1000), Int2Q(2000)}

InitTerminal ==
    \E c \in TerminalCapacities : Constructed(UnitScenario(<<>>, <<>>, Terminal(c)))

TerminalRequest(op) ==
    /\ err = "none"
    /\ Len(hist) < MaxCalls
    /\ \E power \in TerminalRequests :
        \E r \in {TerminalCall(scenario, op, net_import, power)} :
            /\ net_import' = r.s
            /\ hist' = Append(hist, Made(op, power, r, net_import))
            /\ calls' = <<Call("cross_border", op, power, r.ret, r.raised)>>
            /\ err' = r.raised
    /\ UNCHANGED <<scenario, int_util, flex, stor, stats, pc, i, runs>>

TerminalExportAt == TerminalRequest("export_at")

TerminalImportAt == TerminalRequest("import_at")

NextTerminal == TerminalExportAt \/ TerminalImportAt

SpecTerminal == InitTerminal /\ [][NextTerminal]_vars

(***************************************************************************)
(* Requests of any sign made on the sources, the storage units, the two    *)
(* dispatchers and the terminal of one grid.  hist holds the call made     *)
(* last, pre and post being the state of every resource before and after.  *)
(***************************************************************************)
RequestGrids ==
    {UnitScenario(<<Gas, plant>>, <<Battery, Pumped>>, Terminal(500)) :
        plant \in {Coal, Thermal("coal", 1000, Zero, Half, 0, 0, 2)}}

RequestPowers == {Int2Q(-300), Int2Q(300), Int2Q(1000)}

InitRequest == \E sc \in RequestGrids : Constructed(sc)

Resources == [flex |-> flex, stor |-> stor, net_import |-> net_import]

\* The call has left the resources as post and yielded r.
Requested(obj, op, power, r, post) ==
    /\ flex' = post.flex
    /\ stor' = post.stor
    /\ net_import' = post.net_import
    /\ hist' = <<Made(op, power, Result(post, r.ret, r.raised), Resources)>>
    /\ calls' = <<Call(obj, op, power, r.ret, r.raised)>>
    /\ err' = r.raised
    /\ i' = i + 1
    /\ UNCHANGED <<scenario, int_util, stats, pc, runs>>

CanRequest == err = "none" /\ i < MaxCalls

RequestSource ==
    /\ CanRequest
    /\ \E k \in 1..Len(flex) : \E power \in RequestPowers :
        \E r \in {dispatch_at(scenario.flexibles[k], flex[k], power)} :
            Requested(scenario.flexibles[k].name, "dispatch_at", power, r,
                      [Resources EXCEPT !.flex[k] = r.s])

RequestSources ==
    /\ CanRequest
    /\ \E power \in RequestPowers :
        \E d \in {SourceDispatcher_dispatch_at(scenario.flexibles, flex, power)} :
            Requested("flexibles_dispatcher", "dispatch_at", power, d,
                      [Resources EXCEPT !.flex = d.units])

RequestStorage(op) ==
    /\ CanRequest
    /\ \E k \in 1..Len(stor) : \E power \in RequestPowers :
        \E r \in {UnitCall(op, scenario.storages[k], stor[k], power)} :
            Requested(scenario.storages[k].name, op, power, r,
                      [Resources EXCEPT !.stor[k] = r.s])

RequestCharge == RequestStorage("charge_at")

RequestDischarge == RequestStorage("discharge_at")

RequestChargeAll ==
    /\ CanRequest
    /\ \E power \in RequestPowers :
        \E d \in {StorageDispatcher_charge_at(scenario.storages, stor, power)} :
            Requested("storage_dispatcher", "charge_at", power, d,
                      [Resources EXCEPT !.stor = d.units])

RequestDischargeAll ==
    /\ CanRequest
    /\ \E power \in RequestPowers :
        \E d \in {StorageDispatcher_discharge_at(scenario.storages, stor, power)} :
            Requested("storage_dispatcher", "discharge_at", power, d,
                      [Resources EXCEPT !.stor = d.units])

RequestTerminal(op) ==
    /\ CanRequest
    /\ \E power \in RequestPowers :
        \E r \in {TerminalCall(scenario, op, net_import, power)} :
            Requested("cross_border", op, power, r, [Resources EXCEPT !.net_import = r.s])

RequestExport == RequestTerminal("export_at")

RequestImport == RequestTerminal("import_at")

NextRequest ==
    \/ RequestSource
    \/ RequestSources
    \/ RequestCharge
    \/ RequestDischarge
    \/ RequestChargeAll
    \/ RequestDischargeAll
    \/ RequestExport
    \/ RequestImport

SpecRequest == InitRequest /\ [][NextRequest]_vars

(***************************************************************************)
(* Construction.  A constructor yields the assertion or the ValueError     *)
(* that it raised, by its line, or "none" when the object is built.        *)
(***************************************************************************)
\* source.py lines 43-46.
PowerSource_new(p) ==
    IF p.name = "" THEN "source.py:43"
    ELSE IF ~QLt(Zero, p.nominal) THEN "source.py:44"
    ELSE IF ~(QLe(Zero, p.self_consumption) /\ QLt(p.self_consumption, One))
    THEN "source.py:45"
    ELSE IF ~UtilisationOk(p.utilisation) THEN "source.py:46"
    ELSE "none"

\* source.py lines 201-205: super().__init__ with utilisation 0.0, then min_load.
ThermalPowerPlant_new(p) ==
    IF PowerSource_new([p EXCEPT !.utilisation = Zero]) # "none"
    THEN PowerSource_new([p EXCEPT !.utilisation = Zero])
    ELSE IF ~(QLe(Zero, p.min_load) /\ QLe(p.min_load, One)) THEN "source.py:205"
    ELSE "none"

\* storage.py lines 36-39.
EnergyStorage_new(u) ==
    IF u.name = "" THEN "storage.py:36"
    ELSE IF ~QLt(Zero, u.nominal) THEN "storage.py:37"
    ELSE IF ~QLt(Zero, u.max_storage) THEN "storage.py:38"
    ELSE IF ~(QLt(Zero, u.efficiency) /\ QLe(u.efficiency, One)) THEN "storage.py:39"
    ELSE "none"

\* cross_border.py lines 20-21: the capacity is stored as given.
CrossBorderTerminal_new(capacity) == "none"

\* WrongDimensions asking only that no series is longer than the load.
WrongDimensions_Longer(load, series) ==
    \E k \in 1..Len(series) : Len(series[k]) > Len(load)

\* scenario.py line 160: some series has not one value per load step.
WrongDimensions(load, series) ==
    \E k \in 1..Len(series) : Len(series[k]) # Len(load)

\* scenario.py line 168: some series holds a value outside [0, 1].
InvalidFactor(series) ==
    \E k \in 1..Len(series) : \E t \in 1..Len(series[k]) : ~UtilisationOk(series[k][t])

\* scenario.py lines 155-172.
Scenario_new(load, series, grid_losses) ==
    IF ~(QLe(Zero, grid_losses) /\ QLt(grid_losses, One)) THEN "scenario.py:155"
    ELSE IF WrongDimensions(load, series) THEN "scenario.py:161"
    ELSE IF InvalidFactor(series) THEN "scenario.py:169"
    ELSE "none"

IsValueError(raised) == raised \in {"scenario.py:161", "scenario.py:169"}

\* Scenario.num_steps
num_steps(sc) == Len(sc.load)

(***************************************************************************)
(* Constructions, of parameters in and out of their domains.  A unit       *)
(* that is built takes its place in the grid; a Scenario is built over     *)
(* the units the grid has.  hist holds the construction made last.         *)
(***************************************************************************)
Nominals == {-1000, 0, 1000}
Fractions == {<<-1, 2>>, Zero, Half, One, <<3, 2>>}

NewSources ==
    {Source(name, "plain", nominal, sc, u) :
        name \in {"", "gas"}, nominal \in Nominals, sc \in Fractions, u \in Fractions}

NewPlants ==
    {Thermal("coal", nominal, sc, ml, 1, 2, 1) :
        nominal \in Nominals, sc \in Fractions, ml \in Fractions}

NewStorages ==
    {Storage(name, nominal, max, eff) :
        name \in {"", "battery"}, nominal \in Nominals, max \in Nominals, eff \in Fractions}

NewCapacities == {-500, 0, 500}

\* Series of n capacity factors with at most one value out of the ordinary.
NewSeries(n) ==
    {CapFactors(n)} \cup {[CapFactors(n) EXCEPT ![t] = v] : t \in 1..n, v \in Fractions}

NewLoads == {[t \in 1..n |-> Int2Q(1000)] : n \in 0..MaxSteps}

\* Series for a load of n steps: of n values, of one fewer and of one more.
SeriesFor(n) ==
    NewSeries(n) \cup {CapFactors(n + 1)} \cup (IF n > 0 THEN {CapFactors(n - 1)} ELSE {})

\* The series of the intermittent sources of a Scenario over the given load.
NewIntermittents(load) ==
    {<<>>} \cup UNION {{<<s>>, <<CapFactors(Len(load)), s>>} : s \in SeriesFor(Len(load))}

InitConstruct == Constructed(UnitScenario(<<>>, <<>>, NoTerminal))

Grid ==
    [scenario |-> scenario, int_util |-> int_util, flex |-> flex, stor |-> stor,
     net_import |-> net_import]

\* The constructor of class has raised, or has built what makes the grid post.
Construction(class, arg, raised, post) ==
    /\ err = "none"
    /\ pc = "idle"
    /\ scenario' = IF raised = "none" THEN post.scenario ELSE scenario
    /\ int_util' = IF raised = "none" THEN post.int_util ELSE int_util
    /\ flex' = IF raised = "none" THEN post.flex ELSE flex
    /\ stor' = IF raised = "none" THEN post.stor ELSE stor
    /\ net_import' = IF raised = "none" THEN post.net_import ELSE net_import
    /\ hist' = <<[op |-> class, arg |-> arg, raised |-> raised, built |-> raised = "none",
                  pre |-> Grid]>>
    /\ calls' = <<Call(class, "__init__", Zero, Zero, raised)>>
    /\ err' = raised
    /\ pc' = IF class = "Scenario" /\ raised = "none" THEN "built" ELSE pc
    /\ UNCHANGED <<stats, i, runs>>

NewSource ==
    \E p \in NewSources :
        Construction("DispatchableSource", p, PowerSource_new(p),
                     [Grid EXCEPT !.scenario.flexibles = <<p>>,
                                  !.flex = <<PowerSource_init(p)>>])

NewPlant ==
    \E p \in NewPlants :
        Construction("ThermalPowerPlant", p, ThermalPowerPlant_new(p),
                     [Grid EXCEPT !.scenario.flexibles = <<p>>,
                                  !.flex = <<PowerSource_init(p)>>])

NewStorage ==
    \E u \in NewStorages :
        Construction("EnergyStorage", u, EnergyStorage_new(u),
                     [Grid EXCEPT !.scenario.storages = <<u>>,
                                  !.stor = <<EnergyStorage_init(u)>>])

NewTerminal ==
    \E c \in NewCapacities :
        Construction("CrossBorderTerminal", [capacity |-> Int2Q(c)],
                     CrossBorderTerminal_new(Int2Q(c)),
                     [Grid EXCEPT !.scenario.cross_border = Terminal(c),
                                  !.net_import = Zero])

NewScenario ==
    \E load \in NewLoads : \E grid_losses \in Fractions :
        \E series \in NewIntermittents(load) :
            Construction("Scenario",
                         [load |-> load, series |-> series, grid_losses |-> grid_losses],
                         Scenario_new(load, series, grid_losses),
                         [Grid EXCEPT
                            !.scenario.load = load,
                            !.scenario.losses = grid_losses,
                            !.scenario.intermittents =
                                [k \in 1..Len(series) |->
                                    [source |-> Wind, cap_factor |-> series[k]]],
                            !.int_util = [k \in 1..Len(series) |-> Wind.utilisation]])

NextConstruct == NewSource \/ NewPlant \/ NewStorage \/ NewTerminal \/ NewScenario

SpecConstruct == InitConstruct /\ [][NextConstruct]_vars

(***************************************************************************)
(* Scenario.run.                                                           *)
(***************************************************************************)
Init == \E sc \in Scenarios : Constructed(sc)

\* Lines 199-211: a fresh ScenarioRun; the resources keep the state they have.
RunBegin ==
    /\ pc \in {"idle", "done"}
    /\ Len(runs) < MaxRuns
    /\ pc' = "loop"
    /\ i' = 0
    /\ stats' = ScenarioRun_init
    /\ calls' = <<>>
    /\ UNCHANGED <<scenario, int_util, flex, stor, net_import, runs, hist, err>>

\* Lines 213-223: one pass of the loop.
RunStep ==
    /\ pc = "loop"
    /\ i < Len(scenario.load)
    /\ \E iu \in {[k \in 1..Len(scenario.intermittents) |->
                      scenario.intermittents[k].cap_factor[i + 1]]} :
       \E r \in {_step(scenario, iu, flex, stor, net_import, gross_consumption(scenario, i + 1))} :
           /\ int_util' = iu
           /\ flex' = r.flex
           /\ stor' = r.stor
           /\ net_import' = r.net_import
           /\ calls' = r.calls
           /\ err' = r.raised
           /\ IF r.raised = "none"
              THEN /\ stats' = [sweep(stats, scenario, iu, r.flex, r.stor, r.net_import)
                                   EXCEPT !.shortage = Append(@, r.ret)]
                   /\ i' = i + 1
                   /\ pc' = "loop"
              ELSE /\ pc' = "raised"
                   /\ UNCHANGED <<stats, i>>
    /\ UNCHANGED <<scenario, runs, hist>>

\* Line 225: return stats.
RunReturn ==
    /\ pc = "loop"
    /\ i = Len(scenario.load)
    /\ pc' = "done"
    /\ runs' = Append(runs, [stats |-> stats, flex |-> flex, stor |-> stor])
    /\ UNCHANGED <<scenario, int_util, flex, stor, net_import, stats, i, calls, hist, err>>

Next == RunBegin \/ RunStep \/ RunReturn

Spec == Init /\ [][Next]_vars

(***************************************************************************)
(* What a ScenarioRun has recorded for step t (counted from 1), read as    *)
(* the aggregate queries of ScenarioRun read it.                           *)
(***************************************************************************)
Pos(x) == IF QLt(Zero, x) THEN x ELSE Zero
Mag(x) == IF QLt(x, Zero) THEN QNeg(x) ELSE Zero

RecordedSource(st, name, t) == st.source_generation[name][t]

InflexibleAt(st, t) ==
    QAdd(QSum([k \in 1..Len(scenario.baseloads) |->
                  RecordedSource(st, scenario.baseloads[k].name, t)]),
         QSum([k \in 1..Len(scenario.intermittents) |->
                  RecordedSource(st, scenario.intermittents[k].source.name, t)]))

FlexibleAt(st, t) ==
    QSum([k \in 1..Len(scenario.flexibles) |-> RecordedSource(st, scenario.flexibles[k].name, t)])

DischargingAt(st, t) ==
    QSum([k \in 1..Len(scenario.storages) |-> Pos(st.storage_output[scenario.storages[k].name][t])])

ChargingAt(st, t) ==
    QSum([k \in 1..Len(scenario.storages) |-> Mag(st.storage_output[scenario.storages[k].name][t])])

ImportAt(st, t) == IF scenario.cross_border.present THEN Pos(st.net_import[t]) ELSE Zero
ExportAt(st, t) == IF scenario.cross_border.present THEN Mag(st.net_import[t]) ELSE Zero
ShortageAt(st, t) == Pos(st.shortage[t])
DumpAt(st, t) == Mag(st.shortage[t])
ConsumptionAt(t) == QMul(scenario.load[t], QAdd(One, scenario.losses))

SupplyAt(st, t) ==
    QAdd(QAdd(InflexibleAt(st, t), FlexibleAt(st, t)), QAdd(DischargingAt(st, t), ImportAt(st, t)))

DemandAt(st, t) == QAdd(ConsumptionAt(t), QAdd(ChargingAt(st, t), ExportAt(st, t)))

\* The amount by which flexible generation exceeds the deficit left to the
\* flexible sources once storage has discharged.
OvershootAt(st, t) ==
    Pos(QSub(FlexibleAt(st, t),
             Pos(QSub(QSub(ConsumptionAt(t), InflexibleAt(st, t)), DischargingAt(st, t)))))

C2_Scenario ==
    [load |-> <<Int2Q(500), Int2Q(1000), Int2Q(1500)>>, baseloads |-> <<Nuclear>>,
     flexibles |-> <<>>, intermittents |-> <<>>, storages |-> <<>>,
     cross_border |-> NoTerminal, losses |-> Zero]

C2_Done == scenario = C2_Scenario /\ pc = "done" /\ Len(runs) = 1

\* C2 as stated: that scenario yields the shortages 0, 0, 500 and a total
\* generation of 2500.
C2_AsStated ==
    C2_Done =>
        /\ [t \in 1..stats.steps |-> ShortageAt(stats, t)] = <<Zero, Zero, Int2Q(500)>>
        /\ compute_generation(stats, "nuclear") = Int2Q(2500)

\* C2 amended: that scenario records the shortage scalars -500, 0, 500 (a dump
\* of 500, then nothing, then a shortage of 500) and a total generation of 3000.
C2_EndToEnd ==
    C2_Done =>
        /\ stats.shortage = <<Int2Q(-500), Zero, Int2Q(500)>>
        /\ [t \in 1..stats.steps |-> ShortageAt(stats, t)] = <<Zero, Zero, Int2Q(500)>>
        /\ compute_generation(stats, "nuclear") = Int2Q(3000)

C2_Witness == C2_Done /\ stats.steps = 3

(***************************************************************************)
(* The order of operations within the step recorded last.                  *)
(***************************************************************************)
IsTop(c) == c.obj \in {"storage_dispatcher", "flexibles_dispatcher", "cross_border"}
Top == SelectSeq(calls, IsTop)

LastStep == stats.steps
Recorded == pc \in {"loop", "done"} /\ stats.steps >= 1
DeficitStep == Recorded /\ QLt(InflexibleAt(stats, LastStep), ConsumptionAt(LastStep))
SurplusStep == Recorded /\ QLe(ConsumptionAt(LastStep), InflexibleAt(stats, LastStep))

\* Calls with operation a all come before calls with operation b.
Before(a, b) ==
    \A m, n \in 1..Len(calls) : calls[m].op = a /\ calls[n].op = b => m < n

EveryFlexibleShutDown ==
    \A k \in 1..Len(scenario.flexibles) :
        /\ \E m \in 1..Len(calls) :
              calls[m].obj = scenario.flexibles[k].name /\ calls[m].op = "shut_down"
        /\ flex[k].utilisation = Zero

TerminalAsked(c, op, arg) == c.obj = "cross_border" /\ c.op = op /\ c.arg = arg /\ c.raised = "none"

\* C3: a deficit step discharges storage for D, then asks the flexible sources
\* for D1 = max(0, D - discharged) or shuts them all down when D1 = 0, then
\* imports D2 = max(0, D1 - flexible generation); the shortage recorded is
\* max(0, D2 - imported) and is not negative.
C3_DeficitOrder ==
    DeficitStep =>
        LET D == QSub(ConsumptionAt(LastStep), InflexibleAt(stats, LastStep))
            D1 == Pos(QSub(D, Top[1].ret))
            F == IF QLt(Zero, D1) THEN Top[2].ret ELSE Zero
            D2 == Pos(QSub(D1, F))
            imported == IF scenario.cross_border.present THEN Top[3].ret ELSE Zero
        IN  /\ Len(Top) = IF scenario.cross_border.present THEN 3 ELSE 2
            /\ Top[1].obj = "storage_dispatcher" /\ Top[1].op = "discharge_at"
            /\ Top[1].arg = D /\ Top[1].ret = DischargingAt(stats, LastStep)
            /\ Top[2].obj = "flexibles_dispatcher"
            /\ IF QLt(Zero, D1)
               THEN /\ Top[2].op = "dispatch_at" /\ Top[2].arg = D1
                    /\ Top[2].ret = FlexibleAt(stats, LastStep)
               ELSE Top[2].op = "shut_down_all" /\ EveryFlexibleShutDown
            /\ scenario.cross_border.present => TerminalAsked(Top[3], "import_at", D2)
            /\ Before("discharge_at", "dispatch_at") /\ Before("discharge_at", "shut_down")
            /\ Before("dispatch_at", "import_at") /\ Before("shut_down", "import_at")
            /\ stats.shortage[LastStep] = Pos(QSub(D2, imported))
            /\ QLe(Zero, stats.shortage[LastStep])

\* A deficit step in which storage discharged, a flexible source generated,
\* power was imported and a shortage remained.
C3_Witness ==
    /\ DeficitStep
    /\ QLt(Zero, DischargingAt(stats, LastStep))
    /\ QLt(Zero, FlexibleAt(stats, LastStep))
    /\ QLt(Zero, ImportAt(stats, LastStep))
    /\ QLt(Zero, ShortageAt(stats, LastStep))

\* C4: a surplus step shuts every flexible source down, so that each records a
\* net generation of 0, charges storage with S, then exports S1 = max(0, S -
\* charged); the shortage recorded is -max(0, S1 - exported), never positive.
C4_SurplusOrder ==
    SurplusStep =>
        LET S == QSub(InflexibleAt(stats, LastStep), ConsumptionAt(LastStep))
            S1 == Pos(QSub(S, Top[2].ret))
            exported == IF scenario.cross_border.present THEN Top[3].ret ELSE Zero
        IN  /\ Len(Top) = IF scenario.cross_border.present THEN 3 ELSE 2
            /\ Top[1].obj = "flexibles_dispatcher" /\ Top[1].op = "shut_down_all"
            /\ EveryFlexibleShutDown
            /\ \A k \in 1..Len(scenario.flexibles) :
                  RecordedSource(stats, scenario.flexibles[k].name, LastStep) = Zero
            /\ Top[2].obj = "storage_dispatcher" /\ Top[2].op = "charge_at"
            /\ Top[2].arg = S /\ Top[2].ret = ChargingAt(stats, LastStep)
            /\ scenario.cross_border.present => TerminalAsked(Top[3], "export_at", S1)
            /\ Before("shut_down", "charge_at") /\ Before("charge_at", "export_at")
            /\ stats.shortage[LastStep] = QNeg(Pos(QSub(S1, exported)))
            /\ QLe(stats.shortage[LastStep], Zero)

\* A surplus step that stopped a running thermal plant, charged storage,
\* exported and dumped the rest.
C4_Witness ==
    /\ SurplusStep
    /\ \E m \in 1..Len(calls) : calls[m].obj = "coal" /\ calls[m].op = "shut_down"
    /\ \E k \in 1..Len(flex) : flex[k].state = "ShutDown" /\ flex[k].counter = 1
    /\ QLt(Zero, ChargingAt(stats, LastStep))
    /\ QLt(Zero, ExportAt(stats, LastStep))
    /\ QLt(Zero, DumpAt(stats, LastStep))

(***************************************************************************)
(* Shortage and exhaustion.                                                *)
(***************************************************************************)
\* The loop has just recorded a step with a positive shortage.
ShortageRecorded ==
    /\ pc = "loop" /\ stats'.steps = stats.steps + 1
    /\ QLt(Zero, stats'.shortage[stats'.steps])

StorageExhausted ==
    \A k \in 1..Len(scenario.storages) :
        stor'[k].current_output = QMin(scenario.storages[k].nominal, stor[k].current_energy)

TerminalExhausted ==
    scenario.cross_border.present => net_import' = scenario.cross_border.capacity

\* C5 as stated: a step that records a positive shortage has left every
\* storage unit discharging min(nominal, energy before), every flexible
\* source at utilisation 1, and the terminal importing its capacity.
C5_AsStated ==
    [][ShortageRecorded =>
          /\ StorageExhausted
          /\ \A k \in 1..Len(scenario.flexibles) : flex'[k].utilisation = One
          /\ TerminalExhausted]_vars

\* C5 amended: the same, of every plain DispatchableSource; a thermal plant
\* may be below full output (shut down, starting up, or held at minimum load).
C5_Exhausted ==
    [][ShortageRecorded =>
          /\ StorageExhausted
          /\ \A k \in 1..Len(scenario.flexibles) :
                scenario.flexibles[k].kind = "plain" => flex'[k].utilisation = One
          /\ TerminalExhausted]_vars

\* A shortage recorded with storage that held energy, a plain source and a
\* thermal plant below full output, and a terminal.
C5_Witness ==
    /\ Recorded /\ pc = "loop"
    /\ QLt(Zero, stats.shortage[LastStep])
    /\ QLt(Zero, DischargingAt(stats, LastStep))
    /\ scenario.cross_border.present
    /\ \E k \in 1..Len(flex) : scenario.flexibles[k].kind = "plain" /\ flex[k].utilisation = One
    /\ \E k \in 1..Len(flex) : scenario.flexibles[k].kind = "thermal" /\ flex[k].utilisation # One

(***************************************************************************)
(* Claims on direct calls on one unit; hist holds the calls made so far.   *)
(***************************************************************************)
\* C6: after any sequence of charge_at and discharge_at calls with
\* non-negative arguments on a storage unit that starts empty, no assertion
\* of the two has failed, and both the stored energy and the remaining
\* capacity lie between 0 and max_storage.
C6_EnergyWithinBounds ==
    /\ err = "none"
    /\ \A k \in 1..Len(stor) :
        /\ QLe(Zero, stor[k].current_energy)
        /\ QLe(stor[k].current_energy, scenario.storages[k].max_storage)
        /\ QLe(Zero, QSub(scenario.storages[k].max_storage, stor[k].current_energy))
        /\ QLe(QSub(scenario.storages[k].max_storage, stor[k].current_energy),
               scenario.storages[k].max_storage)

\* C7: after any sequence of dispatch_at (power >= 0) and shut_down calls on
\* a dispatchable source, a thermal power plant of any accepted parameters
\* included, utilisation lies in [0, 1] and no assertion on utilisation has
\* failed.
C7_UtilisationInRange ==
    /\ err \notin {"source.py:131", "source.py:249", "source.py:277"}
    /\ \A k \in 1..Len(flex) : UtilisationOk(flex[k].utilisation)

\* C8: two runs of the same Scenario instance record the same sequences
\* (source generation, storage output, net import, shortage).
C8_RunsAgree == \A a, b \in 1..Len(runs) : runs[a].stats = runs[b].stats

IsThermal == Len(scenario.flexibles) = 1 /\ scenario.flexibles[1].kind = "thermal"

Plant == scenario.flexibles[1]

FromShutDown(h) == h.op = "dispatch_at" /\ h.pre.state = "ShutDown"

\* p < min_load * nominal or downtime < min_downtime, in the words of the claim
KeepsShutDown(h) ==
    \/ h.arg[1] * Plant.min_load[2] * Plant.nominal[2]
           < Plant.min_load[1] * Plant.nominal[1] * h.arg[2]
    \/ h.pre.counter < Plant.min_downtime

\* C9: a freshly constructed thermal plant is in ShutDown with downtime =
\* min_downtime.  A dispatch_at(p) made in ShutDown keeps the plant shut
\* down with utilisation 0 and the downtime counter one higher if and only
\* if p < min_load * nominal or downtime < min_downtime; otherwise it moves
\* to StartingUp(phase = 0) with utilisation 0 when startup_time > 0, and to
\* Running(uptime = 1) with utilisation min(p / (nominal * (1 -
\* self_consumption)), 1) when startup_time = 0.
C9_FromShutDown ==
    IsThermal =>
        /\ hist = <<>> =>
               flex[1] = [utilisation |-> Zero, state |-> "ShutDown",
                          counter |-> Plant.min_downtime]
        /\ \A k \in 1..Len(hist) :
               FromShutDown(hist[k]) =>
                   /\ hist[k].raised = "none"
                   /\ hist[k].post =
                          IF KeepsShutDown(hist[k])
                          THEN [utilisation |-> Zero, state |-> "ShutDown",
                                counter |-> hist[k].pre.counter + 1]
                          ELSE IF Plant.startup_time > 0
                          THEN [utilisation |-> Zero, state |-> "StartingUp", counter |-> 0]
                          ELSE [utilisation |->
                                    QMin(QDiv(hist[k].arg,
                                              QMul(Plant.nominal,
                                                   QSub(One, Plant.self_consumption))),
                                         One),
                                state |-> "Running", counter |-> 1]

\* A plant kept down by its downtime alone, then started at a request of
\* exactly min_load * nominal.
C9_Witness ==
    /\ IsThermal
    /\ \E k \in 1..Len(hist) : \E j \in 1..Len(hist) :
        /\ k < j
        /\ FromShutDown(hist[k])
        /\ hist[k].pre.counter < Plant.min_downtime
        /\ hist[k].arg = QMul(Plant.min_load, Plant.nominal)
        /\ hist[k].post.state = "ShutDown"
        /\ FromShutDown(hist[j])
        /\ hist[j].arg = QMul(Plant.min_load, Plant.nominal)
        /\ QLt(Zero, hist[j].arg)
        /\ hist[j].post.state \in {"StartingUp", "Running"}

\* The call on which a shut-down plant commits to start.
Commits(h) == FromShutDown(h) /\ h.post.state = "StartingUp"

\* Calls k+1 .. k+j are all dispatch_at calls.
Following(k, j) ==
    /\ k + j <= Len(hist)
    /\ \A m \in (k + 1)..(k + j) : hist[m].op = "dispatch_at"

\* C10: with startup_time = S > 0, the dispatch_at call on which a shut-down
\* plant commits to start returns 0, and the j-th dispatch_at call following
\* it returns j / S * min_load * nominal for j = 1..S, whatever is requested.
C10_Ramp ==
    IsThermal =>
        \A k \in 1..Len(hist) :
            Commits(hist[k]) =>
                /\ hist[k].ret = Zero
                /\ \A j \in 1..Plant.startup_time :
                       Following(k, j) =>
                           /\ hist[k + j].raised = "none"
                           /\ hist[k + j].ret =
                                  QMul(QDiv(Int2Q(j), Int2Q(Plant.startup_time)),
                                       QMul(Plant.min_load, Plant.nominal))

(***************************************************************************)
(* The thermal plant's transitions, call by call.                          *)
(***************************************************************************)
PlantState(u, st, c) == [utilisation |-> u, state |-> st, counter |-> c]

\* p < min_load * nominal, in the words of the claims
TooLow(h) ==
    h.arg[1] * Plant.min_load[2] * Plant.nominal[2]
        < Plant.min_load[1] * Plant.nominal[1] * h.arg[2]

\* min(p / (nominal * (1 - self_consumption)), 1)
Fraction(p) ==
    QMin(QDiv(p, QMul(Plant.nominal, QSub(One, Plant.self_consumption))), One)

\* What a call returns that has left utilisation u.
NetOf(u) == QMul(QMul(Plant.nominal, u), QSub(One, Plant.self_consumption))

FromStartingUp(h) == h.op = "dispatch_at" /\ h.pre.state = "StartingUp"

\* The state in which a plant that has just gone to Running is left by a
\* request p: the requested fraction, or min_load held, or shut down.
Entered(h) ==
    IF ~TooLow(h) THEN PlantState(Fraction(h.arg), "Running", 1)
    ELSE IF Plant.min_uptime = 0 THEN PlantState(Zero, "ShutDown", 1)
    ELSE PlantState(Plant.min_load, "Running", 1)

\* C11 as stated: from StartingUp every dispatch_at increments the phase, and
\* the call on which the incremented phase equals startup_time moves the
\* plant to Running(uptime = 1) within that call.
C11_AsStated ==
    IsThermal =>
        \A k \in 1..Len(hist) :
            FromStartingUp(hist[k]) =>
                IF hist[k].pre.counter + 1 = Plant.startup_time
                THEN hist[k].post = Entered(hist[k])
                ELSE /\ hist[k].post.state = "StartingUp"
                     /\ hist[k].post.counter = hist[k].pre.counter + 1

\* C11 amended: from StartingUp a dispatch_at that finds phase < startup_time
\* increments the phase, stays in StartingUp and sets utilisation to phase /
\* startup_time * min_load / (1 - self_consumption), whatever is requested
\* (raising at line 277 if that exceeds 1); a dispatch_at that finds phase =
\* startup_time does not increment it and moves to Running(uptime = 1), the
\* request deciding between the requested fraction, min_load held, and an
\* immediate shut-down.
C11_FromStartingUp ==
    IsThermal =>
        \A k \in 1..Len(hist) :
            FromStartingUp(hist[k]) =>
                IF hist[k].pre.counter = Plant.startup_time
                THEN /\ hist[k].post = Entered(hist[k])
                     /\ hist[k].raised = "none"
                     /\ hist[k].ret = NetOf(hist[k].post.utilisation)
                ELSE /\ hist[k].pre.counter < Plant.startup_time
                     /\ hist[k].post =
                            PlantState(QDiv(QMul(QDiv(Int2Q(hist[k].pre.counter + 1),
                                                      Int2Q(Plant.startup_time)),
                                                 Plant.min_load),
                                            QSub(One, Plant.self_consumption)),
                                       "StartingUp", hist[k].pre.counter + 1)
                     /\ hist[k].raised =
                            IF QLe(hist[k].post.utilisation, One)
                            THEN "none" ELSE "source.py:277"
                     /\ hist[k].raised = "none" =>
                            hist[k].ret = NetOf(hist[k].post.utilisation)

\* A plant with self-consumption that ramped to the end of its start-up and
\* was then, on the next call, held at min_load by a request too low.
C11_Witness ==
    /\ IsThermal
    /\ Plant.self_consumption = Half
    /\ Plant.min_uptime > 0
    /\ \E k \in 1..Len(hist) :
        /\ k > 1
        /\ FromStartingUp(hist[k - 1])
        /\ hist[k - 1].post.counter = Plant.startup_time
        /\ hist[k - 1].post.state = "StartingUp"
        /\ QLt(Zero, hist[k - 1].ret)
        /\ FromStartingUp(hist[k])
        /\ TooLow(hist[k])
        /\ hist[k].post = PlantState(Plant.min_load, "Running", 1)

FromRunning(h) == h.op = "dispatch_at" /\ h.pre.state = "Running"

\* C12: from Running, dispatch_at(p) increments the uptime counter; with p <
\* min_load * nominal the plant shuts down (utilisation 0) exactly when the
\* incremented uptime has reached min_uptime, and otherwise stays Running at
\* utilisation min_load; with p >= min_load * nominal it stays Running at
\* utilisation min(p / (nominal * (1 - self_consumption)), 1).
C12_FromRunning ==
    IsThermal =>
        \A k \in 1..Len(hist) :
            FromRunning(hist[k]) =>
                /\ hist[k].raised = "none"
                /\ hist[k].ret = NetOf(hist[k].post.utilisation)
                /\ IF ~TooLow(hist[k])
                   THEN hist[k].post = PlantState(Fraction(hist[k].arg), "Running",
                                                  hist[k].pre.counter + 1)
                   ELSE IF hist[k].pre.counter + 1 >= Plant.min_uptime
                   THEN /\ hist[k].post.state = "ShutDown"
                        /\ hist[k].post.utilisation = Zero
                   ELSE hist[k].post = PlantState(Plant.min_load, "Running",
                                                  hist[k].pre.counter + 1)

\* A running plant held at min_load by a request too low, and shut down by
\* the next such request, its uptime then reaching min_uptime.
C12_Witness ==
    /\ IsThermal
    /\ QLt(Zero, Plant.min_load)
    /\ \E k \in 1..Len(hist) :
        /\ k > 1
        /\ FromRunning(hist[k - 1])
        /\ TooLow(hist[k - 1])
        /\ hist[k - 1].post.state = "Running"
        /\ FromRunning(hist[k])
        /\ TooLow(hist[k])
        /\ hist[k].pre.counter + 1 = Plant.min_uptime
        /\ hist[k].post.state = "ShutDown"

Forced(h) == h.op = "shut_down"

\* C13 as stated: shut_down() called in any state leaves the plant in
\* ShutDown with downtime exactly 1 and utilisation 0.
C13_AsStated ==
    IsThermal =>
        \A k \in 1..Len(hist) :
            Forced(hist[k]) => hist[k].post = PlantState(Zero, "ShutDown", 1)

\* C13 amended: shut_down() leaves the plant in ShutDown with utilisation 0,
\* whatever min_uptime; the downtime is 1 when the plant was StartingUp or
\* Running, and one more than it was when the plant was shut down already.
C13_ShutDown ==
    IsThermal =>
        \A k \in 1..Len(hist) :
            Forced(hist[k]) =>
                /\ hist[k].raised = "none"
                /\ hist[k].post =
                       PlantState(Zero, "ShutDown",
                                  IF hist[k].pre.state = "ShutDown"
                                  THEN hist[k].pre.counter + 1 ELSE 1)

\* shut_down() made on a running plant short of its min_uptime, and again on
\* the plant it has shut down.
C13_Witness ==
    /\ IsThermal
    /\ \E k \in 1..Len(hist) :
        /\ k > 1
        /\ Forced(hist[k - 1])
        /\ hist[k - 1].pre.state = "Running"
        /\ hist[k - 1].pre.counter < Plant.min_uptime
        /\ QLt(Zero, hist[k - 1].pre.utilisation)
        /\ Forced(hist[k])
        /\ hist[k].post.counter = 2

\* The calls made so far, up to call k, are all dispatch_at calls with a
\* request below min_load * nominal.
AllTooLow(k) == \A j \in 1..k : hist[j].op = "dispatch_at" /\ TooLow(hist[j])

\* C14: from a freshly constructed plant, consecutive dispatch_at(p) calls
\* with p < min_load * nominal, however many, each return 0 and leave the
\* plant shut down.
C14_StaysDown ==
    IsThermal =>
        \A k \in 1..Len(hist) :
            AllTooLow(k) =>
                /\ hist[k].raised = "none"
                /\ hist[k].ret = Zero
                /\ hist[k].post.state = "ShutDown"
                /\ hist[k].post.utilisation = Zero

\* Such calls made beyond min_downtime, with positive requests.
C14_Witness ==
    /\ IsThermal
    /\ Len(hist) > Plant.min_downtime + 1
    /\ AllTooLow(Len(hist))
    /\ \A j \in 1..Len(hist) : QLt(Zero, hist[j].arg)

(***************************************************************************)
(* What dispatch_at returns, of a source of either class.                  *)
(***************************************************************************)
Returned(h) == h.op = "dispatch_at" /\ h.raised = "none"

\* nominal * (1 - self_consumption)
NetCapacity == QMul(Plant.nominal, QSub(One, Plant.self_consumption))

LoopCall ==
    /\ calls # <<>>
    /\ calls[1].op \in {"dispatch_at", "charge_at", "discharge_at"}
    /\ calls[1].raised = "none"

Units ==
    IF calls[1].obj = "flexibles_dispatcher" THEN scenario.flexibles ELSE scenario.storages

\* The sum of what the first n units have returned.
ReturnedBy(n) == QSum([j \in 1..n |-> calls[j + 1].ret])

\* C16: a dispatcher operation with total >= 0 that returns has called every
\* unit exactly once, in list order, has asked unit k for max(0, total - what
\* the units before k returned), and returns the sum of what the units
\* returned.
C16_MeritOrder ==
    LoopCall =>
        /\ Len(calls) = Len(Units) + 1
        /\ \A k \in 1..Len(Units) :
            /\ calls[k + 1].obj = Units[k].name
            /\ calls[k + 1].op = calls[1].op
            /\ calls[k + 1].arg = QMax(Zero, QSub(calls[1].arg, ReturnedBy(k - 1)))
        /\ calls[1].ret = ReturnedBy(Len(Units))

\* Three units, each asked for less than the one before and none for nothing,
\* the sum returned short of the total.
C16_Witness ==
    /\ LoopCall
    /\ Len(Units) = 3
    /\ QLt(calls[3].arg, calls[2].arg)
    /\ QLt(calls[4].arg, calls[3].arg)
    /\ QLt(Zero, calls[4].ret)
    /\ QLt(calls[1].ret, calls[1].arg)

PlainFleet ==
    /\ Len(scenario.flexibles) = 3
    /\ \A k \in 1..3 : scenario.flexibles[k].kind = "plain"

SourceCall == LoopCall /\ calls[1].obj = "flexibles_dispatcher" /\ PlainFleet

\* cA, cB, cC
Capacity(k) ==
    QMul(scenario.flexibles[k].nominal, QSub(One, scenario.flexibles[k].self_consumption))

\* C17: a SourceDispatcher over plain sources A, B, C returns cA + cB + cC
\* when asked for more than that; asked for at most cA, it asks A for the
\* whole, B and C for nothing, and B and C end at zero generation.
C17_PlainFleet ==
    SourceCall =>
        /\ QLt(QAdd(QAdd(Capacity(1), Capacity(2)), Capacity(3)), calls[1].arg) =>
               calls[1].ret = QAdd(QAdd(Capacity(1), Capacity(2)), Capacity(3))
        /\ QLe(calls[1].arg, Capacity(1)) =>
               /\ calls[2].arg = calls[1].arg
               /\ \A k \in 2..3 :
                   /\ calls[k + 1].arg = Zero
                   /\ calls[k + 1].ret = Zero
                   /\ flex[k].utilisation = Zero

\* A positive request that A covers, A having self-consumption to make up
\* for and B and C generating before the call.
C17_Witness ==
    /\ SourceCall
    /\ QLe(calls[1].arg, Capacity(1))
    /\ QLt(Zero, calls[1].arg)
    /\ scenario.flexibles[1].self_consumption = Half
    /\ calls[1].ret = calls[1].arg

\* C18: a StorageDispatcher's charge_at(total) and discharge_at(total), total
\* >= 0, return an aggregate in [0, total], no assertion failing.
C18_AggregateWithinTotal ==
    (calls # <<>> /\ calls[1].obj = "storage_dispatcher") =>
        /\ calls[1].raised = "none"
        /\ QLe(Zero, calls[1].ret)
        /\ QLe(calls[1].ret, calls[1].arg)

IsPlain == Len(scenario.flexibles) = 1 /\ scenario.flexibles[1].kind = "plain"

\* C19: on a plain DispatchableSource in any state, dispatch_at(p), p >= 0,
\* sets utilisation to min(p / (nominal * (1 - self_consumption)), 1) and
\* returns min(p, nominal * (1 - self_consumption)), so that every p up to
\* the net capacity is returned as it is; shut_down() sets utilisation, and
\* with it generation, to 0.
C19_Plain ==
    IsPlain =>
        \A k \in 1..Len(hist) :
            /\ hist[k].raised = "none"
            /\ hist[k].op = "dispatch_at" =>
                   /\ hist[k].post.utilisation = Fraction(hist[k].arg)
                   /\ hist[k].ret = QMin(hist[k].arg, NetCapacity)
                   /\ QLe(hist[k].arg, NetCapacity) => hist[k].ret = hist[k].arg
            /\ hist[k].op = "shut_down" =>
                   /\ hist[k].post.utilisation = Zero
                   /\ QMul(hist[k].post.utilisation, Plant.nominal) = Zero

\* A source with self-consumption capped at its net capacity, shut down, and
\* then returning a positive request as it is.
C19_Witness ==
    /\ IsPlain
    /\ Plant.self_consumption = Half
    /\ Len(hist) >= 3
    /\ hist[1].op = "dispatch_at"
    /\ QLt(NetCapacity, hist[1].arg)
    /\ hist[1].ret = NetCapacity
    /\ hist[2].op = "shut_down"
    /\ hist[3].op = "dispatch_at"
    /\ QLt(Zero, hist[3].arg)
    /\ hist[3].ret = hist[3].arg

Unit == scenario.storages[1]

\* min(p, nominal, remaining_capacity before the call), remaining_capacity
\* being what the property returns: max_storage - current_energy, rounded.
ChargeOf(h) ==
    QMin(QMin(h.arg, Unit.nominal), float(QSub(Unit.max_storage, h.pre.current_energy)))

\* C20: charge_at(p), p >= 0, returns c = min(p, nominal, remaining_capacity
\* before the call), adds efficiency * c to the stored energy (the product
\* and the sum as the program computes them) and sets the output to -c; with
\* no remaining capacity it returns 0.
C20_ChargeAt ==
    \A k \in 1..Len(hist) :
        hist[k].op = "charge_at" =>
            /\ hist[k].raised = "none"
            /\ hist[k].ret = ChargeOf(hist[k])
            /\ hist[k].post.current_energy =
                   float(QAdd(hist[k].pre.current_energy,
                              float(QMul(Unit.efficiency, ChargeOf(hist[k])))))
            /\ hist[k].post.current_output = QNeg(ChargeOf(hist[k]))
            /\ hist[k].pre.current_energy = Unit.max_storage => hist[k].ret = Zero

(***************************************************************************)
(* Direct calls on one storage unit: discharging.                          *)
(***************************************************************************)
DischargeCall(h) == h.op = "discharge_at" /\ QLe(Zero, h.arg)

\* min(p, stored energy before the call, nominal)
DischargeOf(h) == QMin(QMin(h.arg, h.pre.current_energy), Unit.nominal)

\* C21: discharge_at(p), p >= 0, returns d = min(p, stored energy before the
\* call, nominal), takes exactly d off the stored energy and sets the output
\* to d; on an empty unit it returns 0 and the output is 0.
C21_DischargeAt ==
    \A k \in 1..Len(hist) :
        DischargeCall(hist[k]) =>
            /\ hist[k].raised = "none"
            /\ hist[k].ret = DischargeOf(hist[k])
            /\ hist[k].post.current_energy =
                   QSub(hist[k].pre.current_energy, DischargeOf(hist[k]))
            /\ hist[k].post.current_output = DischargeOf(hist[k])
            /\ hist[k].pre.current_energy = Zero =>
                   hist[k].ret = Zero /\ hist[k].post.current_output = Zero

\* A discharge that the stored energy limits, and a later one of the unit
\* it has emptied.
C21_Witness ==
    \E k \in 1..Len(hist) : \E j \in 1..Len(hist) :
        /\ k < j
        /\ DischargeCall(hist[k])
        /\ QLt(Zero, hist[k].ret)
        /\ QLt(hist[k].ret, hist[k].arg)
        /\ QLt(hist[k].ret, Unit.nominal)
        /\ hist[k].ret = hist[k].pre.current_energy
        /\ DischargeCall(hist[j])
        /\ hist[j].pre.current_energy = Zero
        /\ QLt(Zero, hist[j].arg)
        /\ hist[j].ret = Zero

(***************************************************************************)
(* charge_at followed immediately by discharge_at, both having returned.   *)
(***************************************************************************)
RoundTrip(k) ==
    /\ k + 1 <= Len(hist)
    /\ hist[k].op = "charge_at" /\ hist[k].raised = "none"
    /\ hist[k + 1].op = "discharge_at" /\ hist[k + 1].raised = "none"

\* The discharge is requested at the power the charge was requested at.
SameRequest(k) == hist[k + 1].arg = hist[k].arg

\* The stored energy is back at what it was before the charge.
Restored(k) == hist[k + 1].post.current_energy = hist[k].pre.current_energy

\* The remaining capacity has not limited the charge, or the unit was empty.
NotLimited(k) ==
    \/ hist[k].ret = QMin(hist[k].arg, Unit.nominal)
    \/ hist[k].pre.current_energy = Zero

\* C22 as stated: with efficiency 1, charge_at(p) followed immediately by
\* discharge_at(p) returns the stored energy to its value before the charge.
C22_AsStated ==
    \A k \in 1..Len(hist) :
        (RoundTrip(k) /\ SameRequest(k) /\ Unit.efficiency = One) => Restored(k)

\* C22: with efficiency 1, charge_at(p) returning c followed immediately by
\* discharge_at(c) returns the stored energy to its value before the charge;
\* followed by discharge_at(p) it does so exactly when the remaining capacity
\* has not limited the charge or the unit was empty, and otherwise the
\* stored energy ends below that value.
C22_RoundTrip ==
    \A k \in 1..Len(hist) :
        (RoundTrip(k) /\ Unit.efficiency = One) =>
            /\ hist[k + 1].arg = hist[k].ret => Restored(k)
            /\ SameRequest(k) => (Restored(k) <=> NotLimited(k))
            /\ (SameRequest(k) /\ ~NotLimited(k)) =>
                   QLt(hist[k + 1].post.current_energy, hist[k].pre.current_energy)

\* A unit of efficiency 1 holding energy is charged and discharged at the
\* same power, the charge not limited by the remaining capacity.
C22_Witness ==
    \E k \in 1..Len(hist) :
        /\ RoundTrip(k) /\ SameRequest(k) /\ Unit.efficiency = One
        /\ QLt(Zero, hist[k].pre.current_energy)
        /\ QLt(Zero, hist[k].ret)
        /\ NotLimited(k)
        /\ Restored(k)

\* What the charge of round trip k has stored: efficiency * c.
Stored(k) == QMul(Unit.efficiency, hist[k].ret)

Lossy == QLt(Unit.efficiency, One)

\* C23 as stated: with efficiency < 1, if charge_at(p) returns c, the
\* immediately following discharge_at(p) returns at most efficiency * c.
C23_AsStated ==
    \A k \in 1..Len(hist) :
        (RoundTrip(k) /\ SameRequest(k) /\ Lossy) => QLe(hist[k + 1].ret, Stored(k))

\* C23: with efficiency < 1, if charge_at(p) returns c, the immediately
\* following discharge_at(p) returns min(p, nominal, e + efficiency * c), e
\* being the energy stored before the charge: at most efficiency * c when
\* the unit was empty before the charge, and more than that whenever e > 0
\* and the request and the nominal power exceed efficiency * c.
C23_Recovered ==
    \A k \in 1..Len(hist) :
        (RoundTrip(k) /\ SameRequest(k) /\ Lossy) =>
            /\ hist[k + 1].ret =
                   QMin(QMin(hist[k].arg, Unit.nominal),
                        QAdd(hist[k].pre.current_energy, Stored(k)))
            /\ hist[k].pre.current_energy = Zero => QLe(hist[k + 1].ret, Stored(k))
            /\ (/\ QLt(Zero, hist[k].pre.current_energy)
                /\ QLt(Stored(k), hist[k].arg)
                /\ QLt(Stored(k), Unit.nominal)) => QLt(Stored(k), hist[k + 1].ret)

\* An empty unit of efficiency < 1 is charged and discharged at the same
\* power, and the discharge returns efficiency * c, less than was charged.
C23_Witness ==
    \E k \in 1..Len(hist) :
        /\ RoundTrip(k) /\ SameRequest(k) /\ Lossy
        /\ hist[k].pre.current_energy = Zero
        /\ QLt(Zero, hist[k].ret)
        /\ hist[k + 1].ret = Stored(k)
        /\ QLt(hist[k + 1].ret, hist[k].ret)

(***************************************************************************)
(* Direct calls on a CrossBorderTerminal; hist holds the calls made so     *)
(* far, pre and post being net_import before and after the call.           *)
(***************************************************************************)
CapacityOf == scenario.cross_border.capacity

\* min(power, C)
Passed(h) == QMin(h.arg, CapacityOf)

\* C24: with capacity C > 0 and power >= 0, export_at(power) returns
\* min(power, C) and leaves net_import = -min(power, C), import_at(power)
\* returns min(power, C) and leaves net_import = min(power, C); a fresh
\* terminal has net_import 0.
C24_Terminal ==
    /\ hist = <<>> => net_import = Zero
    /\ \A k \in 1..Len(hist) :
        (QLt(Zero, CapacityOf) /\ QLe(Zero, hist[k].arg)) =>
            /\ hist[k].raised = "none"
            /\ hist[k].ret = Passed(hist[k])
            /\ hist[k].op = "export_at" => hist[k].post = QNeg(Passed(hist[k]))
            /\ hist[k].op = "import_at" => hist[k].post = Passed(hist[k])
            /\ k = Len(hist) => net_import = hist[k].post

\* An export above the capacity followed by an import below it.
C24_Witness ==
    \E k \in 1..Len(hist) :
        /\ k + 1 = Len(hist)
        /\ hist[k].op = "export_at" /\ QLt(CapacityOf, hist[k].arg)
        /\ hist[k].ret = CapacityOf /\ QLt(Zero, hist[k].ret)
        /\ hist[k + 1].op = "import_at" /\ QLt(Zero, hist[k + 1].arg)
        /\ QLt(hist[k + 1].arg, CapacityOf)
        /\ net_import = hist[k + 1].arg

\* What the call leaves as net_import, whatever it was before.
Signed(h) == IF h.op = "import_at" THEN Passed(h) ELSE QNeg(Passed(h))

\* C25: requests overwrite, they do not accumulate: net_import is
\* +min(C, q) after import_at(q) and -min(C, q) after export_at(q) whatever
\* the calls before, so it is what the last call that returned has set, and
\* never beyond C in either direction.
C25_Overwrite ==
    /\ QLe(QNeg(CapacityOf), net_import) /\ QLe(net_import, CapacityOf)
    /\ \A k \in 1..Len(hist) :
        /\ hist[k].raised = "none" => hist[k].post = Signed(hist[k])
        /\ hist[k].raised # "none" => hist[k].post = hist[k].pre
        /\ k = Len(hist) => net_import = hist[k].post

\* An import made while the terminal was exporting, and then an export made
\* while it was importing.
C25_Witness ==
    \E k \in 2..Len(hist) :
        /\ k + 1 = Len(hist)
        /\ QLt(hist[k].pre, Zero)
        /\ hist[k].op = "import_at" /\ QLt(Zero, hist[k].post)
        /\ hist[k + 1].op = "export_at" /\ QLt(hist[k + 1].post, Zero)
        /\ net_import = QNeg(Passed(hist[k + 1]))

(***************************************************************************)
(* Requests with a negative power.                                         *)
(***************************************************************************)
Negative(h) == QLt(h.arg, Zero)

\* C26: a dispatch, charge, discharge, import or export request with a
\* negative power, made on a unit, a dispatcher or the terminal, fails, and
\* leaves the utilisation, the thermal state and counters, the stored
\* energy, the output and net_import of every resource as they were.
C26_NegativeFails ==
    \A k \in 1..Len(hist) :
        /\ Resources = hist[k].post
        /\ Negative(hist[k]) =>
            /\ hist[k].raised # "none"
            /\ err = hist[k].raised
            /\ hist[k].post = hist[k].pre

\* A negative request made with the plant out of its shut-down state, energy
\* stored and the terminal importing.
NegativeAt(obj, op) ==
    /\ hist # <<>>
    /\ Negative(hist[1])
    /\ calls[1].obj = obj /\ calls[1].op = op
    /\ flex[2].state # "ShutDown"
    /\ QLt(Zero, flex[1].utilisation)
    /\ QLt(Zero, stor[1].current_energy)
    /\ QLt(Zero, net_import)

C26_Witness == NegativeAt("coal", "dispatch_at")

(***************************************************************************)
(* Construction: hist holds the construction made last.                    *)
(***************************************************************************)
ScenarioMade == hist # <<>> /\ hist[1].op = "Scenario"

\* Some series has a length other than len(load) or a value outside [0, 1].
BadSeries(a) ==
    \/ \E k \in 1..Len(a.series) : Len(a.series[k]) # Len(a.load)
    \/ \E k \in 1..Len(a.series) : \E t \in 1..Len(a.series[k]) :
           QLt(a.series[k][t], Zero) \/ QLt(One, a.series[k][t])

LossesOk(a) == QLe(Zero, a.grid_losses) /\ QLt(a.grid_losses, One)

\* The Scenario is built over the arguments given, with num_steps = len(load).
ScenarioBuilt(a) ==
    /\ hist[1].built
    /\ err = "none"
    /\ pc = "built"
    /\ scenario.load = a.load
    /\ num_steps(scenario) = Len(a.load)

\* C27 as stated: construction fails with ValueError whenever some series has
\* a length other than len(load) or a value outside [0, 1]; with every
\* series right and grid_losses in [0, 1) it succeeds, num_steps = len(load).
C27_AsStated ==
    ScenarioMade =>
        /\ BadSeries(hist[1].arg) => IsValueError(hist[1].raised)
        /\ (~BadSeries(hist[1].arg) /\ LossesOk(hist[1].arg)) => ScenarioBuilt(hist[1].arg)

\* C27: with grid_losses in [0, 1), construction fails with ValueError
\* whenever some series has a length other than len(load) or a value outside
\* [0, 1], and succeeds with num_steps = len(load) otherwise; with grid_losses
\* outside [0, 1) it fails on the assertion of line 155, whatever the series.
C27_Construction ==
    ScenarioMade =>
        /\ (LossesOk(hist[1].arg) /\ BadSeries(hist[1].arg)) =>
               IsValueError(hist[1].raised) /\ ~hist[1].built /\ pc = "idle"
        /\ (LossesOk(hist[1].arg) /\ ~BadSeries(hist[1].arg)) => ScenarioBuilt(hist[1].arg)
        /\ ~LossesOk(hist[1].arg) =>
               hist[1].raised = "scenario.py:155" /\ ~hist[1].built /\ pc = "idle"

\* A Scenario of two intermittent sources, the second one's series one value
\* short, is refused with ValueError.
C27_Witness ==
    /\ ScenarioMade
    /\ LossesOk(hist[1].arg)
    /\ Len(hist[1].arg.series) = 2
    /\ Len(hist[1].arg.load) >= 2
    /\ Len(hist[1].arg.series[1]) = Len(hist[1].arg.load)
    /\ Len(hist[1].arg.series[2]) = Len(hist[1].arg.load) - 1
    /\ IsValueError(hist[1].raised)
    /\ err = hist[1].raised

\* The parameter the claim names is outside its domain.
OutOfDomain(h) ==
    CASE h.op = "DispatchableSource" ->
            \/ ~QLt(Zero, h.arg.nominal)
            \/ ~(QLe(Zero, h.arg.self_consumption) /\ QLt(h.arg.self_consumption, One))
            \/ ~(QLe(Zero, h.arg.utilisation) /\ QLe(h.arg.utilisation, One))
      [] h.op = "ThermalPowerPlant" ->
            \/ ~QLt(Zero, h.arg.nominal)
            \/ ~(QLe(Zero, h.arg.self_consumption) /\ QLt(h.arg.self_consumption, One))
            \/ ~(QLe(Zero, h.arg.min_load) /\ QLe(h.arg.min_load, One))
      [] h.op = "EnergyStorage" ->
            \/ ~QLt(Zero, h.arg.nominal)
            \/ ~QLt(Zero, h.arg.max_storage)
            \/ ~(QLt(Zero, h.arg.efficiency) /\ QLe(h.arg.efficiency, One))
      [] h.op = "CrossBorderTerminal" -> QLt(h.arg.capacity, Zero)
      [] OTHER -> ~LossesOk(h.arg)

\* C28: the construction of a resource with a physical parameter outside its
\* domain (a source's nominal, self_consumption or utilisation, a plant's
\* min_load, a storage unit's nominal, max_storage or efficiency, a
\* terminal's capacity, a Scenario's grid_losses) fails and yields no object:
\* the grid is as it was.
C28_Refused ==
    \A k \in 1..Len(hist) :
        OutOfDomain(hist[k]) =>
            /\ hist[k].raised # "none"
            /\ ~hist[k].built
            /\ Grid = hist[k].pre

(***************************************************************************)
(* What a ScenarioRun holds, sweep after sweep.                            *)
(***************************************************************************)
Running == pc \in {"loop", "done"}

StorageNames == {scenario.storages[k].name : k \in 1..Len(scenario.storages)}

SourceNames == {PowerSourceNames(scenario)[k] : k \in 1..Len(PowerSourceNames(scenario))}

\* cap_factor[t] * nominal * (1 - self_consumption)
IntermittentEntry(k, t) ==
    QMul(QMul(scenario.intermittents[k].cap_factor[t], scenario.intermittents[k].source.nominal),
         QSub(One, scenario.intermittents[k].source.self_consumption))

\* C29: every sweep adds one entry to the sequence of every registered
\* source and storage unit, one net-import entry when a terminal is
\* registered, and 1 to steps, and no sequence shrinks: after s sweeps every
\* sequence, the shortage's too, has exactly s entries; after run() s is
\* len(load); entry t of an intermittent source is
\* cap_factor[t] * nominal * (1 - self_consumption).
C29_Recorded ==
    Running =>
        /\ stats.steps = i
        /\ pc = "done" => stats.steps = Len(scenario.load)
        /\ \A n \in SourceNames : Len(DictGet(stats.source_generation, n)) = stats.steps
        /\ \A n \in StorageNames : Len(DictGet(stats.storage_output, n)) = stats.steps
        /\ DOMAIN stats.source_generation \subseteq SourceNames
        /\ DOMAIN stats.storage_output \subseteq StorageNames
        /\ Len(stats.net_import) = IF scenario.cross_border.present THEN stats.steps ELSE 0
        /\ Len(stats.shortage) = stats.steps
        /\ \A k \in 1..Len(scenario.intermittents) : \A t \in 1..stats.steps :
               stats.source_generation[scenario.intermittents[k].source.name][t]
                   = IntermittentEntry(k, t)

\* A run over MaxSteps steps of a grid with sources of every kind, storage
\* and a terminal has returned.
C29_Witness ==
    /\ pc = "done"
    /\ stats.steps = MaxSteps
    /\ Len(scenario.load) = MaxSteps
    /\ Len(scenario.baseloads) = 1
    /\ Len(scenario.intermittents) = 1
    /\ Len(scenario.flexibles) = 2
    /\ Len(scenario.storages) = 2
    /\ scenario.cross_border.present
    /\ Len(stats.source_generation["wind"]) = MaxSteps
    /\ stats.source_generation["wind"][1] = Int2Q(500)
    /\ Len(stats.storage_output["pumped"]) = MaxSteps
    /\ Len(stats.net_import) = MaxSteps

(***************************************************************************)
(* The aggregate queries of a ScenarioRun, against what it has recorded    *)
(* step by step.                                                           *)
(***************************************************************************)
Steps == 1..stats.steps

\* The sum over the recorded steps of a quantity given step by step.
OverSteps(f) == QSum([t \in Steps |-> f[t]])

\* C30: on the ScenarioRun that run() returns, the aggregate queries are
\* reductions of the recorded sequences:
\* total charging is minus the sum of the negative storage outputs, total
\* discharging the sum of the positive ones, total export minus the sum of
\* the negative net-import entries, total import the sum of the positive
\* ones, total dump minus the sum of the negative shortage entries, total
\* shortage the sum of the positive ones; count_charging_steps and
\* count_discharging_steps count a step once when some unit's output is < 0,
\* > 0 in it, and count_generation_steps(name) the steps of generation > 0.
C30_Aggregates ==
    pc = "done" =>
        /\ compute_total_charging(stats, scenario)
               = OverSteps([t \in Steps |-> ChargingAt(stats, t)])
        /\ compute_total_discharging(stats, scenario)
               = OverSteps([t \in Steps |-> DischargingAt(stats, t)])
        /\ compute_total_export(stats) = OverSteps([t \in Steps |-> ExportAt(stats, t)])
        /\ compute_total_import(stats) = OverSteps([t \in Steps |-> ImportAt(stats, t)])
        /\ compute_total_dump(stats) = OverSteps([t \in Steps |-> DumpAt(stats, t)])
        /\ compute_total_shortage(stats) = OverSteps([t \in Steps |-> ShortageAt(stats, t)])
        /\ count_charging_steps(stats)
               = Cardinality({t \in Steps : QLt(Zero, ChargingAt(stats, t))})
        /\ count_discharging_steps(stats)
               = Cardinality({t \in Steps : QLt(Zero, DischargingAt(stats, t))})
        /\ \A n \in SourceNames :
               count_generation_steps(stats, n)
                   = Cardinality({t \in Steps : QLt(Zero, RecordedSource(stats, n, t))})

\* A run in which two units charge in the same step, and which has charged,
\* discharged and exported.
C30_Witness ==
    /\ pc = "done"
    /\ \E t \in Steps : \A k \in 1..Len(scenario.storages) :
           /\ Len(scenario.storages) = 2
           /\ QLt(stats.storage_output[scenario.storages[k].name][t], Zero)
    /\ count_charging_steps(stats) >= 1
    /\ count_discharging_steps(stats) >= 1
    /\ QLt(Zero, compute_total_charging(stats, scenario))
    /\ QLt(Zero, compute_total_discharging(stats, scenario))
    /\ QLt(Zero, compute_total_export(stats))

(***************************************************************************)
(* The balance of a step whose flexible sources are all plain              *)
(* dispatchable sources.                                                   *)
(***************************************************************************)
PlainFlexibles ==
    \A k \in 1..Len(scenario.flexibles) : scenario.flexibles[k].kind = "plain"

\* C31: in every recorded step of a scenario whose flexible sources are all
\* plain DispatchableSource units, inflexible generation + flexible
\* generation + discharging + import + shortage = gross consumption +
\* charging + export + dump, in exact arithmetic.
C31_PlainBalance ==
    PlainFlexibles =>
        \A t \in 1..stats.steps :
            QAdd(SupplyAt(stats, t), ShortageAt(stats, t))
                = QAdd(DemandAt(stats, t), DumpAt(stats, t))

\* A finished run of a scenario with a plain flexible source, a storage unit
\* and a terminal, in which one step discharged, dispatched and imported and
\* another charged.
C31_Witness ==
    /\ pc = "done"
    /\ PlainFlexibles
    /\ Len(scenario.flexibles) > 0
    /\ \E t \in 1..stats.steps :
          /\ QLt(Zero, DischargingAt(stats, t))
          /\ QLt(Zero, FlexibleAt(stats, t))
          /\ QLt(Zero, ImportAt(stats, t))
    /\ \E t \in 1..stats.steps : QLt(Zero, ChargingAt(stats, t))

(***************************************************************************)
(* What a SourceDispatcher delivers against the total asked of it.         *)
(***************************************************************************)
FleetCall == LoopCall /\ calls[1].obj = "flexibles_dispatcher"

\* min_load * nominal of a thermal plant, nothing of a plain source: what a
\* unit may generate beyond its request.
HeldPower(p) == IF p.kind = "thermal" THEN QMul(p.min_load, p.nominal) ELSE Zero

HeldPowers == QSum([k \in 1..Len(scenario.flexibles) |-> HeldPower(scenario.flexibles[k])])

GoesRunning(h) ==
    h.op = "dispatch_at" /\ h.pre.state # "Running" /\ h.post.state = "Running"

\* A dispatch_at below the threshold shuts the running plant down.
DemandShutDown(h) ==
    /\ h.op = "dispatch_at"
    /\ h.raised = "none"
    /\ h.pre.state = "Running"
    /\ h.post.state = "ShutDown"
    /\ TooLow(h)

\* Every call from j to k - 1 has ended with the plant Running.
RunningFrom(j, k) == \A m \in j..(k - 1) : hist[m].post.state = "Running"

\* C33: between the dispatch_at that puts a thermal plant into Running and a
\* shutdown caused by a dispatch_at below the threshold, at least min_uptime
\* consecutive dispatch_at calls have ended with the plant Running.
C33_MinUptime ==
    IsThermal =>
        \A j, k \in 1..Len(hist) :
            (j < k /\ GoesRunning(hist[j]) /\ RunningFrom(j, k) /\ DemandShutDown(hist[k]))
                => k - j >= Plant.min_uptime

\* The call takes the plant from StartingUp or Running to ShutDown, forced
\* or by a request below the threshold.
ShutsDown(h) ==
    /\ h.raised = "none"
    /\ h.pre.state \in {"StartingUp", "Running"}
    /\ h.post.state = "ShutDown"

\* C34: a thermal plant called once per step, by dispatch_at or shut_down,
\* generates nothing for at least min_downtime consecutive steps from the
\* step of a call that shuts it down, that step counted, whatever is
\* requested in those steps.
C34_MinDowntime ==
    IsThermal =>
        \A k \in 1..Len(hist) :
            ShutsDown(hist[k]) =>
                \A m \in 0..(Plant.min_downtime - 1) :
                    k + m <= Len(hist) =>
                        /\ hist[k + m].raised = "none"
                        /\ hist[k + m].ret = Zero
                        /\ net_generation(Plant, hist[k + m].post) = Zero

\* A plant with a minimum downtime of two steps or more shut down by a
\* request below the threshold, asked for its full power in the next step
\* and not started, and started by the same request once the downtime is over.
C34_Witness ==
    /\ IsThermal
    /\ Plant.min_downtime >= 2
    /\ \E k \in 1..Len(hist) :
          /\ ShutsDown(hist[k])
          /\ hist[k].op = "dispatch_at"
          /\ k + Plant.min_downtime <= Len(hist)
          /\ \A m \in 1..Plant.min_downtime :
                /\ hist[k + m].op = "dispatch_at"
                /\ ~TooLow(hist[k + m])
          /\ hist[k + Plant.min_downtime].post.state # "ShutDown"

(***************************************************************************)
(* The state of a thermal plant against its utilisation.                   *)
(***************************************************************************)
\* C35: in every state that dispatch_at and shut_down calls bring a thermal
\* plant to, ShutDown goes with utilisation 0 (the assertion of line 234
\* never failing), Running with utilisation >= min_load, and StartingUp in
\* phase k with 0 <= k <= startup_time and utilisation k / startup_time *
\* min_load / (1 - self_consumption).
C35_StateAgrees ==
    IsThermal =>
        /\ \A k \in 1..Len(hist) : hist[k].raised # "source.py:234"
        /\ flex[1].state = "ShutDown" => flex[1].utilisation = Zero
        /\ flex[1].state = "Running" => QLe(Plant.min_load, flex[1].utilisation)
        /\ flex[1].state = "StartingUp" =>
               /\ 0 <= flex[1].counter
               /\ flex[1].counter <= Plant.startup_time
               /\ Plant.startup_time > 0
               /\ flex[1].utilisation = RampUtilisation(Plant, flex[1].counter)

\* A plant with self-consumption part of the way up its ramp, after having
\* been shut down and started again.
C35_Witness ==
    /\ IsThermal
    /\ Plant.self_consumption = Half
    /\ Plant.min_load = Half
    /\ flex[1].state = "StartingUp"
    /\ flex[1].counter = 1
    /\ Plant.startup_time = 2
    /\ \E k \in 1..Len(hist) : hist[k].op = "shut_down"

(***************************************************************************)
(* The calls that one step of Scenario.run makes on every resource.        *)
(***************************************************************************)
\* The places in the log cs of the calls of the given operations on a resource.
CallsOn(cs, name, ops) == {m \in 1..Len(cs) : cs[m].obj = name /\ cs[m].op \in ops}

TheCall(cs, name, ops) == cs[CHOOSE m \in CallsOn(cs, name, ops) : TRUE]

SourceOps == {"dispatch_at", "shut_down"}
StorageOps == {"charge_at", "discharge_at"}
TerminalOps == {"export_at", "import_at"}

\* What the call c makes of the flexible source p in state s, and what it
\* makes the source generate.
SourceAfter(p, s, c) ==
    IF c.op = "dispatch_at" THEN dispatch_at(p, s, c.arg).s ELSE shut_down(p, s)

SourceValue(c) == IF c.op = "dispatch_at" THEN c.ret ELSE Zero

\* The output a storage call leaves, and the net import a terminal call leaves.
SignedValue(c) == IF c.op \in {"charge_at", "export_at"} THEN QNeg(c.ret) ELSE c.ret

\* RunStep has recorded a step.
StepRecorded == pc = "loop" /\ stats'.steps = stats.steps + 1

FlexibleOnce(k) ==
    /\ Cardinality(CallsOn(calls', scenario.flexibles[k].name, SourceOps)) = 1
    /\ flex'[k] = SourceAfter(scenario.flexibles[k], flex[k],
                              TheCall(calls', scenario.flexibles[k].name, SourceOps))
    /\ RecordedSource(stats', scenario.flexibles[k].name, stats'.steps)
           = SourceValue(TheCall(calls', scenario.flexibles[k].name, SourceOps))

StorageOnce(k) ==
    /\ Cardinality(CallsOn(calls', scenario.storages[k].name, StorageOps)) = 1
    /\ stor'[k] = UnitCall(TheCall(calls', scenario.storages[k].name, StorageOps).op,
                           scenario.storages[k], stor[k],
                           TheCall(calls', scenario.storages[k].name, StorageOps).arg).s
    /\ stats'.storage_output[scenario.storages[k].name][stats'.steps]
           = SignedValue(TheCall(calls', scenario.storages[k].name, StorageOps))

TerminalOnce ==
    IF scenario.cross_border.present
    THEN /\ Cardinality(CallsOn(calls', "cross_border", TerminalOps)) = 1
         /\ net_import' = TerminalCall(scenario,
                                       TheCall(calls', "cross_border", TerminalOps).op,
                                       net_import,
                                       TheCall(calls', "cross_border", TerminalOps).arg).s
         /\ stats'.net_import[stats'.steps]
                = SignedValue(TheCall(calls', "cross_border", TerminalOps))
    ELSE CallsOn(calls', "cross_border", TerminalOps) = {}

\* C36: a step of Scenario.run() makes exactly one call, dispatch_at or
\* shut_down, on each flexible source, exactly one, charge_at or
\* discharge_at, on each storage unit and exactly one, export_at or
\* import_at, on the terminal if there is one; the state of each resource
\* after the step is what that one call makes of its state before the step
\* (a thermal plant's counter advancing once), and the value recorded for
\* the step is the value of that call.
C36_OncePerStep ==
    [][StepRecorded =>
          /\ \A k \in 1..Len(scenario.flexibles) : FlexibleOnce(k)
          /\ \A k \in 1..Len(scenario.storages) : StorageOnce(k)
          /\ TerminalOnce]_vars

\* A step in which a thermal plant was dispatched and took the first step
\* of its ramp, two storage units were asked to discharge and the terminal
\* imported.
C36_Witness ==
    /\ Recorded
    /\ \E k \in 1..Len(scenario.flexibles) :
          /\ scenario.flexibles[k].kind = "thermal"
          /\ CallsOn(calls, scenario.flexibles[k].name, {"dispatch_at"}) # {}
          /\ flex[k].state = "StartingUp"
          /\ flex[k].counter = 1
    /\ Len(scenario.storages) = 2
    /\ \A k \in 1..Len(scenario.storages) :
          CallsOn(calls, scenario.storages[k].name, {"discharge_at"}) # {}
    /\ CallsOn(calls, "cross_border", {"import_at"}) # {}
    /\ QLt(Zero, net_import)

(***************************************************************************)
(* Scenario.run over a terminal of negative capacity, which                *)
(* CrossBorderTerminal.__init__ (cross_border.py:15-21) builds as any      *)
(* other.                                                                  *)
(***************************************************************************)
NegativeTerminalScenarios ==
    {[load |-> load, baseloads |-> <<Nuclear>>, flexibles |-> <<Gas>>,
      intermittents |-> <<>>, storages |-> st, cross_border |-> Terminal(-500),
      losses |-> Zero] :
        load \in LoadSeries, st \in {<<>>, <<Pumped>>}}

InitNegativeTerminal == \E sc \in NegativeTerminalScenarios : Constructed(sc)

SpecNegativeTerminal == InitNegativeTerminal /\ [][Next]_vars

(***************************************************************************)
(* The directions of the flows recorded for a step.                        *)
(***************************************************************************)
OutputAt(k, t) == stats.storage_output[scenario.storages[k].name][t]

NetImportAt(t) == IF scenario.cross_border.present THEN stats.net_import[t] ELSE Zero

\* C37: in the step recorded last, a surplus step leaves no storage unit
\* with a positive output and net import <= 0, a deficit step no storage
\* unit with a negative output and net import >= 0; and the step records
\* neither charging with discharging, nor import with export, nor export
\* with shortage, nor import with dump.
C37_Directions ==
    Recorded =>
        /\ SurplusStep =>
               /\ \A k \in 1..Len(scenario.storages) : QLe(OutputAt(k, LastStep), Zero)
               /\ QLe(NetImportAt(LastStep), Zero)
        /\ DeficitStep =>
               /\ \A k \in 1..Len(scenario.storages) : QLe(Zero, OutputAt(k, LastStep))
               /\ QLe(Zero, NetImportAt(LastStep))
        /\ ~(QLt(Zero, ChargingAt(stats, LastStep)) /\ QLt(Zero, DischargingAt(stats, LastStep)))
        /\ ~(QLt(Zero, ImportAt(stats, LastStep)) /\ QLt(Zero, ExportAt(stats, LastStep)))
        /\ ~(QLt(Zero, ExportAt(stats, LastStep)) /\ QLt(Zero, ShortageAt(stats, LastStep)))
        /\ ~(QLt(Zero, ImportAt(stats, LastStep)) /\ QLt(Zero, DumpAt(stats, LastStep)))

(***************************************************************************)
(* The energy a storage unit holds against what its calls have returned.   *)
(***************************************************************************)
\* The stored energy after the first k calls, computed as the program
\* computes it from the values the calls have returned: efficiency * c added
\* for a charge_at that returned c, d drawn for a discharge_at that returned d.
RECURSIVE EnergyAfter(_)
EnergyAfter(k) ==
    IF k = 0 THEN Zero
    ELSE IF hist[k].op = "charge_at"
    THEN float(QAdd(EnergyAfter(k - 1), float(QMul(Unit.efficiency, hist[k].ret))))
    ELSE float(QSub(EnergyAfter(k - 1), hist[k].ret))

\* C38: over any sequence of charge_at and discharge_at calls on a unit that
\* starts empty, every call returns and the stored energy is efficiency *
\* (the values charge_at returned) less (the values discharge_at returned),
\* the sums taken as the program takes them.
C38_Conserved ==
    /\ \A k \in 1..Len(hist) : hist[k].raised = "none"
    /\ stor[1].current_energy = EnergyAfter(Len(hist))

(***************************************************************************)
(* Merit order: a unit is put to use only when the units before it are     *)
(* saturated.  In a step of the dispatcher specification the unprimed      *)
(* variables hold the units' states before the call, calls' its log.       *)
(***************************************************************************)
Called(obj, op) ==
    /\ calls' # <<>>
    /\ calls'[1].obj = obj
    /\ calls'[1].op = op
    /\ calls'[1].raised = "none"

AllPlain == \A k \in 1..Len(scenario.flexibles) : scenario.flexibles[k].kind = "plain"

\* min(nominal, remaining capacity) and min(nominal, stored energy) of unit j
\* before the call.
Absorbable(j) == QMin(scenario.storages[j].nominal, remaining_capacity(scenario.storages[j], stor[j]))
Deliverable(j) == QMin(scenario.storages[j].nominal, stor[j].current_energy)

\* C39: after SourceDispatcher.dispatch_at over plain sources a source has
\* utilisation > 0 only if every source before it has utilisation 1; after
\* StorageDispatcher.charge_at a unit has charged a positive amount only if
\* every unit before it absorbed min(nominal, remaining capacity), and after
\* discharge_at a unit has discharged a positive amount only if every unit
\* before it delivered min(nominal, stored energy).
C39_Saturation ==
    [][/\ (Called("flexibles_dispatcher", "dispatch_at") /\ AllPlain) =>
              \A k \in 1..Len(scenario.flexibles) :
                  QLt(Zero, flex'[k].utilisation) =>
                      \A j \in 1..(k - 1) : flex'[j].utilisation = One
       /\ Called("storage_dispatcher", "charge_at") =>
              \A k \in 1..Len(scenario.storages) :
                  QLt(Zero, calls'[k + 1].ret) =>
                      \A j \in 1..(k - 1) : calls'[j + 1].ret = Absorbable(j)
       /\ Called("storage_dispatcher", "discharge_at") =>
              \A k \in 1..Len(scenario.storages) :
                  QLt(Zero, calls'[k + 1].ret) =>
                      \A j \in 1..(k - 1) : calls'[j + 1].ret = Deliverable(j)]_vars

\* A charge_at over three units of which the first, part full, absorbed less
\* than its nominal power and the third charged.
C39_Witness ==
    /\ LoopCall
    /\ calls[1].obj = "storage_dispatcher"
    /\ calls[1].op = "charge_at"
    /\ Len(scenario.storages) = 3
    /\ QLt(Zero, calls[2].ret)
    /\ QLt(calls[2].ret, scenario.storages[1].nominal)
    /\ QLt(Zero, calls[4].ret)

(***************************************************************************)
(* How many calls a thermal plant takes to deliver what it is asked for.   *)
(***************************************************************************)
\* Calls j to n of the history hs are dispatch_at calls for at least min_load * nominal, all
\* of which have returned.
Sustained(hs, j, n) ==
    \A m \in j..n : hs[m].op = "dispatch_at" /\ ~TooLow(hs[m]) /\ hs[m].raised = "none"

\* The call ends with the plant Running and returns min(p, nominal * (1 -
\* self_consumption)).
Responds(h) == h.post.state = "Running" /\ h.ret = QMin(h.arg, NetCapacity)

BoundStated == Plant.min_downtime + Plant.startup_time + 1

BoundAmended ==
    (IF Plant.min_downtime > 1 THEN Plant.min_downtime ELSE 1) + Plant.startup_time + 1

CallsNeeded(s) ==
    CASE s.state = "Running" -> 1
      [] s.state = "StartingUp" -> Plant.startup_time - s.counter + 1
      [] OTHER ->
            (IF s.counter < Plant.min_downtime THEN Plant.min_downtime - s.counter ELSE 0)
                + (IF Plant.startup_time > 0 THEN Plant.startup_time + 2 ELSE 1)

\* The step is a dispatch_at for at least min_load * nominal that returned.
AdequateCall ==
    /\ Len(hist') = Len(hist) + 1
    /\ Sustained(hist', Len(hist'), Len(hist'))

====
